---- MODULE Spec2Model ----
(***************************************************************************)
(* A model of the WebM muxer of simple-stop-motion (webm-writer.js), of    *)
(* the byte stream it writes through (ArrayBufferDataStream), and of the   *)
(* way the export feeds it (VideoBackend.renderToWritableStream).          *)
(*                                                                         *)
(* Bytes are naturals in 0..255, byte strings are sequences of bytes, and  *)
(* the output file is the byte sequence the muxer has written so far.      *)
(*                                                                         *)
(* Times.  The code keeps times as doubles in ms (chunk.timestamp / 1000). *)
(* The model keeps every time as an integer number of ticks, TicksPerMs    *)
(* ticks to the millisecond, so that a time of the model is the exact      *)
(* rational value.  The chunk timestamps the model draws are multiples of  *)
(* 1/2 ms, or the 30 fps grid i * (1e6 / 30) us: on the first the double   *)
(* arithmetic of the code is exact, on the second its error is below 1e-9  *)
(* ms and every value rounded by Math.round is at least 1/6 ms away from a *)
(* rounding boundary.                                                      *)
(***************************************************************************)
EXTENDS Integers, Sequences, FiniteSets, TLC

\* Bound of the model: the number of addFrame calls of one muxer session.
MaxFrames == 3

\* Ticks per microsecond (thirds, so that 1e6 / 30 us is a whole number).
TicksPerUs == 2 + 1
TicksPerMs == 1000 * TicksPerUs

(***************************************************************************)
(* JavaScript number operations on the values the muxer handles.           *)
(***************************************************************************)
\* 2^k, for k in 0..30.
Pow2(k) ==
  <<1, 2, 4, 8, 16, 32, 64, 128, 256, 512, 1024, 2048, 4096, 8192, 16384,
    32768, 65536, 131072, 262144, 524288, 1048576, 2097152, 4194304,
    8388608, 16777216, 33554432, 67108864, 134217728, 268435456,
    536870912, 1073741824>>[k + 1]

\* u >> k, for u in the 32-bit signed range (an arithmetic shift).
Shr(u, k) == u \div Pow2(k)

\* Math.floor(u / 4294967296)
High32(u) == (u \div 65536) \div 65536

\* Bit i of the two's complement of a.
Bit(a, i) == (a \div Pow2(i)) % 2

OrBit(a, b, i) == IF Bit(a, i) = 1 \/ Bit(b, i) = 1 THEN Pow2(i) ELSE 0

\* The low 8 bits of a | b: what a Uint8Array cell keeps of a | b.
BitOr(a, b) ==
  OrBit(a, b, 0) + OrBit(a, b, 1) + OrBit(a, b, 2) + OrBit(a, b, 3)
  + OrBit(a, b, 4) + OrBit(a, b, 5) + OrBit(a, b, 6) + OrBit(a, b, 7)

\* Math.round: the nearest integer, a half rounded towards +infinity; of the
\* rational num / den, and of the time t (in ticks, giving ms).
MathRoundQ(num, den) == (2 * num + den) \div (2 * den)
MathRound(t) == MathRoundQ(t, TicksPerMs)

(***************************************************************************)
(* IEEE754 encoding of the rational num / den (den > 0), big-endian:       *)
(* sign bit, ebits exponent bits, mbits mantissa bits, round to nearest,   *)
(* ties to even.  Subnormals and overflow do not occur for the values of   *)
(* the model.                                                              *)
(***************************************************************************)
\* The number of bits of n (0 for n = 0).
BitLen(n) ==
  IF n = 0 THEN 0
  ELSE CHOOSE k \in 1..31 : Pow2(k - 1) <= n /\ (k = 31 \/ n < Pow2(k))

\* The w low bits of n, the most significant first.
FixedBits(n, w) == [i \in 1..w |-> (n \div Pow2(w - i)) % 2]

IntBits(n) == FixedBits(n, BitLen(n))

\* 2^k modulo den, by repeated squaring.
RECURSIVE Pow2Mod(_, _)
Pow2Mod(k, den) ==
  IF k = 0 THEN 1 % den
  ELSE LET h == Pow2Mod(k \div 2, den)
       IN (((h * h) % den) * (IF k % 2 = 1 THEN 2 ELSE 1)) % den

\* The remainder of r / den after k fraction bits (0 <= r < den).
FracRem(r, den, k) == (r * Pow2Mod(k, den)) % den

\* The first k fraction bits of r / den.
FracBits(r, den, k) ==
  [i \in 1..k |-> IF 2 * FracRem(r, den, i - 1) >= den THEN 1 ELSE 0]

\* The number of leading zero bits of the fraction r / den (0 < r < den).
\* The least z with 2^(z+1) * r >= den.
FracZeros(r, den) ==
  CHOOSE z \in 0..29 :
    /\ Pow2(z + 1) >= (den + r - 1) \div r
    /\ (z = 0 \/ Pow2(z) < (den + r - 1) \div r)

\* bits + 1, as a bit string of the same length (bits is not all ones).
BitsInc(bits) ==
  LET j == CHOOSE i \in 1..Len(bits) :
             bits[i] = 0 /\ \A k \in (i + 1)..Len(bits) : bits[k] = 1
  IN [i \in 1..Len(bits) |-> IF i < j THEN bits[i] ELSE IF i = j THEN 1 ELSE 0]

BitsToBytes(bits) ==
  [k \in 1..(Len(bits) \div 8) |->
     128 * bits[8 * k - 7] + 64 * bits[8 * k - 6] + 32 * bits[8 * k - 5]
     + 16 * bits[8 * k - 4] + 8 * bits[8 * k - 3] + 4 * bits[8 * k - 2]
     + 2 * bits[8 * k - 1] + bits[8 * k]]

FloatBytes(num, den, ebits, mbits) ==
  LET a    == IF num < 0 THEN 0 - num ELSE num
      ip   == a \div den
      r    == a % den
      ib   == IntBits(ip)
      z    == IF ip = 0 THEN FracZeros(r, den) ELSE 0
      e    == IF ip = 0 THEN 0 - (z + 1) ELSE Len(ib) - 1
      \* the fraction bits consumed to get mbits + 1 significant bits
      used == IF ip = 0 THEN z + mbits + 1 ELSE mbits + 1 - Len(ib)
      sig  == IF ip = 0
              THEN SubSeq(FracBits(r, den, used), z + 1, used)
              ELSE IF used >= 0 THEN ib \o FracBits(r, den, used)
              ELSE SubSeq(ib, 1, mbits + 1)
      \* what is dropped, as the fraction dropn / dropd of one unit of sig
      dropn == IF used >= 0 THEN FracRem(r, den, used)
               ELSE (ip % Pow2(0 - used)) * den + r
      dropd == IF used >= 0 THEN den ELSE Pow2(0 - used) * den
      up   == 2 * dropn > dropd \/ (2 * dropn = dropd /\ sig[mbits + 1] = 1)
      allOnes == \A i \in 1..(mbits + 1) : sig[i] = 1
      sig2 == IF up THEN (IF allOnes THEN <<1>> \o [i \in 1..mbits |-> 0]
                          ELSE BitsInc(sig))
              ELSE sig
      e2   == IF up /\ allOnes THEN e + 1 ELSE e
      bias == Pow2(ebits - 1) - 1
  IN IF a = 0 THEN [i \in 1..((1 + ebits + mbits) \div 8) |-> 0]
     ELSE BitsToBytes(<<IF num < 0 THEN 1 ELSE 0>>
                      \o FixedBits(e2 + bias, ebits)
                      \o SubSeq(sig2, 2, mbits + 1))

(***************************************************************************)
(* ArrayBufferDataStream: a Uint8Array of byteLength cells and a cursor.   *)
(* data holds the cells up to the last one written; the cells after it are *)
(* 0, as the constructor leaves them.  A write at or beyond byteLength is  *)
(* dropped by the Uint8Array while the cursor still advances.  err is set  *)
(* once a method has thrown: nothing is written after it.                  *)
(***************************************************************************)
ArrayBufferDataStream(length) ==
  [data |-> <<>>, pos |-> 0, byteLength |-> length, err |-> FALSE]

Zeros(n) == [k \in 1..n |-> 0]

seek(s, toOffset) == [s EXCEPT !.pos = toOffset]

throw(s) == [s EXCEPT !.err = TRUE]

\* this.data[this.pos++] = b, for each b of arr in order: a cell keeps b
\* modulo 256, and a store at or beyond byteLength is dropped.
writeBytes(s, arr) ==
  IF s.err THEN s
  ELSE LET end    == s.pos + Len(arr)
           last   == IF end < s.byteLength THEN end ELSE s.byteLength
           bytes  == [k \in 1..Len(arr) |-> arr[k] % 256]
           padded == s.data \o Zeros(s.pos - Len(s.data))
       IN [s EXCEPT
             !.data = IF s.pos >= s.byteLength THEN @
                      ELSE SubSeq(padded, 1, s.pos)
                           \o SubSeq(bytes, 1, last - s.pos)
                           \o SubSeq(padded, last + 1, Len(padded)),
             !.pos = end]

writeByte(s, b) == writeBytes(s, <<b>>)

writeU8(s, b) == writeByte(s, b)

\* str is the string's sequence of character codes.
writeString(s, str) == writeBytes(s, str)

writeU16BE(s, u) == writeBytes(s, <<Shr(u, 8), u>>)

writeDoubleBE(s, d) == writeBytes(s, FloatBytes(d.num, d.den, 11, 52))

writeFloatBE(s, d) == writeBytes(s, FloatBytes(d.num, d.den, 8, 23))

\* A number beyond the range of the model's integers is held as <<hi, lo>>:
\* its value is hi * 2^28 + lo, with 0 <= lo < 2^28.
Wide(val) == <<val \div Pow2(28), val % Pow2(28)>>

\* a < b
WideLess(a, b) == a[1] < b[1] \/ (a[1] = b[1] /\ a[2] < b[2])

\* val >> k for k in {8, 16, 24}: the 32 low bits of val = <<hi, lo>>, read
\* as a signed number, shifted (an arithmetic shift).
WideShr(val, k) ==
  LET u == (val[1] % 16) * Pow2(28 - k) + val[2] \div Pow2(k)
  IN IF u >= Pow2(31 - k) THEN u - Pow2(32 - k) ELSE u

\* Math.floor(val / 4294967296)
WideHigh32(val) == val[1] \div 16

\* writeEBMLVarIntWidth without the case of width 5.
writeEBMLVarIntWidthWide_upTo4(s, val, width) ==
  CASE width = 1 -> writeBytes(s, <<BitOr(Pow2(7), val[2])>>)
    [] width = 2 -> writeBytes(s, <<BitOr(Pow2(6), WideShr(val, 8)), val[2]>>)
    [] width = 3 -> writeBytes(s, <<BitOr(Pow2(5), WideShr(val, 16)),
                                    WideShr(val, 8), val[2]>>)
    [] width = 4 -> writeBytes(s, <<BitOr(Pow2(4), WideShr(val, 24)),
                                    WideShr(val, 16), WideShr(val, 8),
                                    val[2]>>)
    [] OTHER -> throw(s)

\* writeEBMLVarIntWidth with the marker of width 3 in place of that of
\* width 2.
writeEBMLVarIntWidthWide_marker(s, val, width) ==
  CASE width = 1 -> writeBytes(s, <<BitOr(Pow2(7), val[2])>>)
    [] width = 2 -> writeBytes(s, <<BitOr(Pow2(5), WideShr(val, 8)), val[2]>>)
    [] width = 3 -> writeBytes(s, <<BitOr(Pow2(5), WideShr(val, 16)),
                                    WideShr(val, 8), val[2]>>)
    [] width = 4 -> writeBytes(s, <<BitOr(Pow2(4), WideShr(val, 24)),
                                    WideShr(val, 16), WideShr(val, 8),
                                    val[2]>>)
    [] width = 5 -> writeBytes(s, <<BitOr(Pow2(3), WideHigh32(val) % 8),
                                    WideShr(val, 24), WideShr(val, 16),
                                    WideShr(val, 8), val[2]>>)
    [] OTHER -> throw(s)

\* writeEBMLVarIntWidth of the number val = <<hi, lo>>: the writeU8 calls of
\* each case, in order.  A cell keeps the low 8 bits of what is stored.
writeEBMLVarIntWidthWide(s, val, width) ==
  CASE width = 1 -> writeBytes(s, <<BitOr(Pow2(7), val[2])>>)
    [] width = 2 -> writeBytes(s, <<BitOr(Pow2(6), WideShr(val, 8)), val[2]>>)
    [] width = 3 -> writeBytes(s, <<BitOr(Pow2(5), WideShr(val, 16)),
                                    WideShr(val, 8), val[2]>>)
    [] width = 4 -> writeBytes(s, <<BitOr(Pow2(4), WideShr(val, 24)),
                                    WideShr(val, 16), WideShr(val, 8),
                                    val[2]>>)
    [] width = 5 -> writeBytes(s, <<BitOr(Pow2(3), WideHigh32(val) % 8),
                                    WideShr(val, 24), WideShr(val, 16),
                                    WideShr(val, 8), val[2]>>)
    [] OTHER -> throw(s)

writeEBMLVarIntWidth(s, i, width) == writeEBMLVarIntWidthWide(s, Wide(i), width)

\* measureEBMLVarInt without the room for the reserved value of a width.
measureEBMLVarIntWide_sentinel(val) ==
  IF WideLess(val, Wide(Pow2(7))) THEN 1
  ELSE IF WideLess(val, Wide(Pow2(14))) THEN 2
  ELSE IF WideLess(val, Wide(Pow2(21))) THEN 3
  ELSE IF WideLess(val, Wide(Pow2(28))) THEN 4
  ELSE IF WideLess(val, <<128, 0>>) THEN 5
  ELSE 0

\* measureEBMLVarInt of the number val = <<hi, lo>>: the width, or 0 when
\* the method throws.  34359738367 is 2^35 - 1 = 127 * 2^28 + 2^28 - 1.
measureEBMLVarIntWide(val) ==
  IF WideLess(val, Wide(Pow2(7) - 1)) THEN 1
  ELSE IF WideLess(val, Wide(Pow2(14) - 1)) THEN 2
  ELSE IF WideLess(val, Wide(Pow2(21) - 1)) THEN 3
  ELSE IF WideLess(val, Wide(Pow2(28) - 1)) THEN 4
  ELSE IF WideLess(val, <<127, Pow2(28) - 1>>) THEN 5
  ELSE 0

\* The width, or 0 when the method throws.
measureEBMLVarInt(val) == measureEBMLVarIntWide(Wide(val))

\* writeEBMLVarInt of the number val = <<hi, lo>>.
writeEBMLVarIntWide(s, val) ==
  IF measureEBMLVarIntWide(val) = 0 THEN throw(s)
  ELSE writeEBMLVarIntWidthWide(s, val, measureEBMLVarIntWide(val))

writeEBMLVarInt(s, i) == writeEBMLVarIntWide(s, Wide(i))

\* measureUnsignedInt of the number val = <<hi, lo>>.
measureUnsignedIntWide(val) ==
  IF WideLess(val, Wide(Pow2(8))) THEN 1
  ELSE IF WideLess(val, Wide(Pow2(16))) THEN 2
  ELSE IF WideLess(val, Wide(Pow2(24))) THEN 3
  ELSE IF WideLess(val, <<16, 0>>) THEN 4      \* val < 4294967296
  ELSE 5

measureUnsignedInt(val) == measureUnsignedIntWide(Wide(val))

\* writeUnsignedIntBE of the number u = <<hi, lo>>.  width = 0 stands for an
\* omitted width.  The cases of the switch fall through: width w writes the
\* w low bytes, the most significant first.
writeUnsignedIntBEWide(s, u, width) ==
  LET w == IF width = 0 THEN measureUnsignedIntWide(u) ELSE width
      all == <<WideHigh32(u), WideShr(u, 24), WideShr(u, 16), WideShr(u, 8),
               u[2]>>
  IN IF w \in 1..5 THEN writeBytes(s, SubSeq(all, 6 - w, 5)) ELSE throw(s)

writeUnsignedIntBE(s, u, width) == writeUnsignedIntBEWide(s, Wide(u), width)

\* getAsDataArray throws when the cursor lies beyond the end of the buffer.
getAsDataArrayThrows(s) == s.err \/ s.pos > s.byteLength

getAsDataArray(s) ==
  SubSeq(s.data \o Zeros(s.pos - Len(s.data)), 1, s.pos)

(***************************************************************************)
(* EBML nodes.  An element is a record [id, kind, data, size]; kind names  *)
(* the JavaScript type of data:                                            *)
(*   "children" an array of nodes        "string"  a string (char codes)   *)
(*   "number"   a number                 "bytes"   a Uint8Array            *)
(*   "float64"  an EBMLFloat64           "float32" an EBMLFloat32          *)
(* size is 0 when the object has no size property, -1 for "unbounded".     *)
(* A node [kind |-> "raw", data] is a bare string or Uint8Array.  writeEBML*)
(* sets offset, dataOffset and size on the objects it writes: the model    *)
(* returns the written node with them, beside the stream.                  *)
(***************************************************************************)
Element(id, kind, data) == [id |-> id, kind |-> kind, data |-> data, size |-> 0]

SizedElement(id, kind, data, size) ==
  [id |-> id, kind |-> kind, data |-> data, size |-> size]

Raw(bytes) == [kind |-> "raw", data |-> bytes]

EBMLFloat64(value) == [num |-> value, den |-> 1]

Written(e, offset, dataOffset, size, data) ==
  [id |-> e.id, kind |-> e.kind, data |-> data, size |-> size,
   offset |-> offset, dataOffset |-> dataOffset]

RECURSIVE writeEBML(_, _, _)
RECURSIVE writeEBMLRange(_, _, _, _, _)

\* The nodes of a range's result: the result of a range of one node is the
\* result of writeEBML.
Nodes(r, lo, hi) == IF lo = hi THEN <<r.ebml>> ELSE r.ebml

\* The siblings ebml[lo..hi], written in order (the range is cut in four to
\* keep the evaluation shallow; the order of the writes is that of the loop).
writeEBMLRange(buffer, bufferFileOffset, ebml, lo, hi) ==
  CASE lo > hi -> [buffer |-> buffer, ebml |-> <<>>]
    [] lo = hi -> writeEBML(buffer, bufferFileOffset, ebml[lo])
    [] OTHER ->
       LET q  == (hi - lo + 4) \div 4
           m1 == lo + q - 1
           m2 == IF m1 + q < hi THEN m1 + q ELSE hi
           m3 == IF m2 + q < hi THEN m2 + q ELSE hi
           a  == writeEBMLRange(buffer, bufferFileOffset, ebml, lo, m1)
           b  == writeEBMLRange(a.buffer, bufferFileOffset, ebml, m1 + 1, m2)
           c  == writeEBMLRange(b.buffer, bufferFileOffset, ebml, m2 + 1, m3)
           d  == writeEBMLRange(c.buffer, bufferFileOffset, ebml, m3 + 1, hi)
       IN CASE a.buffer.err ->
               [buffer |-> a.buffer, ebml |-> Nodes(a, lo, m1)]
            [] b.buffer.err ->
               [buffer |-> b.buffer,
                ebml |-> Nodes(a, lo, m1) \o Nodes(b, m1 + 1, m2)]
            [] c.buffer.err ->
               [buffer |-> c.buffer,
                ebml |-> Nodes(a, lo, m1) \o Nodes(b, m1 + 1, m2)
                         \o Nodes(c, m2 + 1, m3)]
            [] OTHER ->
               [buffer |-> d.buffer,
                ebml |-> Nodes(a, lo, m1) \o Nodes(b, m1 + 1, m2)
                         \o Nodes(c, m2 + 1, m3) \o Nodes(d, m3 + 1, hi)]

\* The array branch: each sibling in order.
writeEBMLArray(buffer, bufferFileOffset, ebml) ==
  LET r == writeEBMLRange(buffer, bufferFileOffset, ebml, 1, Len(ebml))
  IN [buffer |-> r.buffer, ebml |-> Nodes(r, 1, Len(ebml))]

\* The data of an element that is not an array, b2 being the stream after
\* the Size field.
writeEBMLPayload(b2, bufferFileOffset, ebml, offset) ==
  [buffer |->
     CASE ebml.kind = "string"  -> writeString(b2, ebml.data)
       [] ebml.kind = "number"  ->
          writeUnsignedIntBE(b2, ebml.data,
                             IF ebml.size = 0 THEN measureUnsignedInt(ebml.data)
                             ELSE ebml.size)
       [] ebml.kind = "float64" -> writeDoubleBE(b2, ebml.data)
       [] ebml.kind = "float32" -> writeFloatBE(b2, ebml.data)
       [] OTHER                 -> writeBytes(b2, ebml.data),
   ebml |->
     Written(ebml, offset, b2.pos + bufferFileOffset,
             IF ebml.kind = "number" /\ ebml.size = 0
             THEN measureUnsignedInt(ebml.data) ELSE ebml.size,
             ebml.data)]

\* The element branch for data that is not an array; b1 is the stream after
\* the ID field.  Each type writes its Size field, then its data.
writeEBMLData(b1, bufferFileOffset, ebml, offset) ==
  IF ebml.kind \notin {"string", "number", "float64", "float32", "bytes"}
  THEN [buffer |-> throw(b1), ebml |-> ebml]
  ELSE writeEBMLPayload(
         writeEBMLVarInt(b1,
           CASE ebml.kind = "number"  ->
                IF ebml.size = 0 THEN measureUnsignedInt(ebml.data)
                ELSE ebml.size
             [] ebml.kind = "float64" -> 8
             [] ebml.kind = "float32" -> 4
             [] OTHER                 -> Len(ebml.data)),
         bufferFileOffset, ebml, offset)

\* The array branch with the size counted from the Size field on.
writeEBMLChildren_fromSizePos(b1, bufferFileOffset, ebml, offset) ==
  LET sizePos   == b1.pos
      b2        == IF ebml.size = 0 - 1 THEN writeByte(b1, 255)
                   ELSE writeBytes(b1, <<0, 0, 0, 0>>)
      dataBegin == b2.pos
      n         == Len(ebml.data)
      kids      == writeEBMLRange(b2, bufferFileOffset, ebml.data, 1, n)
      dataEnd   == kids.buffer.pos
      size      == IF ebml.size = 0 - 1 THEN ebml.size
                   ELSE dataEnd - sizePos
  IN IF kids.buffer.err THEN [buffer |-> kids.buffer, ebml |-> ebml]
     ELSE [buffer |-> IF ebml.size = 0 - 1 THEN kids.buffer
                      ELSE seek(writeEBMLVarIntWidth(
                             seek(kids.buffer, sizePos), size, 4), dataEnd),
           ebml |-> Written(ebml, offset, dataBegin + bufferFileOffset,
                            size, Nodes(kids, 1, n))]

\* The element branch for an array of children; b1 is the stream after the
\* ID field.
writeEBMLChildren(b1, bufferFileOffset, ebml, offset) ==
  LET sizePos   == b1.pos
      \* the size: unknown (1 byte), or 4 bytes filled in below
      b2        == IF ebml.size = 0 - 1 THEN writeByte(b1, 255)
                   ELSE writeBytes(b1, <<0, 0, 0, 0>>)
      dataBegin == b2.pos
      n         == Len(ebml.data)
      kids      == writeEBMLRange(b2, bufferFileOffset, ebml.data, 1, n)
      dataEnd   == kids.buffer.pos
      size      == IF ebml.size = 0 - 1 THEN ebml.size
                   ELSE dataEnd - dataBegin
  IN IF kids.buffer.err THEN [buffer |-> kids.buffer, ebml |-> ebml]
     ELSE [buffer |-> IF ebml.size = 0 - 1 THEN kids.buffer
                      ELSE seek(writeEBMLVarIntWidth(
                             seek(kids.buffer, sizePos), size, 4), dataEnd),
           ebml |-> Written(ebml, offset, dataBegin + bufferFileOffset,
                            size, Nodes(kids, 1, n))]

writeEBML(buffer, bufferFileOffset, ebml) ==
  CASE buffer.err -> [buffer |-> buffer, ebml |-> ebml]
    [] ebml.kind = "raw" ->
       [buffer |-> writeBytes(buffer, ebml.data), ebml |-> ebml]
    [] ebml.id = 0 -> [buffer |-> throw(buffer), ebml |-> ebml]
    [] ebml.kind = "children" ->
       writeEBMLChildren(writeUnsignedIntBE(buffer, ebml.id, 0),   \* ID field
                         bufferFileOffset, ebml,
                         buffer.pos + bufferFileOffset)
    [] OTHER ->
       writeEBMLData(writeUnsignedIntBE(buffer, ebml.id, 0),       \* ID field
                     bufferFileOffset, ebml, buffer.pos + bufferFileOffset)

(***************************************************************************)
(* BlobBuffer, the output sink: the file written so far, its length and    *)
(* the position of the next write.  write() puts the bytes at pos, over    *)
(* what is there or extending the file, and advances pos; seek() moves     *)
(* pos; complete() finalizes the sink.                                     *)
(***************************************************************************)
BlobBuffer == [pos |-> 0, length |-> 0, data |-> <<>>, completed |-> FALSE]

blobWrite(b, bytes) ==
  LET old == b.data \o Zeros(b.pos - Len(b.data))
      end == b.pos + Len(bytes)
  IN [b EXCEPT !.data = SubSeq(old, 1, b.pos) \o bytes
                        \o SubSeq(old, end + 1, Len(old)),
               !.pos = end,
               !.length = IF end > @ THEN end ELSE @]

blobSeek(b, offset) == [b EXCEPT !.pos = offset]

blobComplete(b) == [b EXCEPT !.completed = TRUE]

(***************************************************************************)
(* WebMWriter.  The closure variables of the constructor are the fields of *)
(* a record w; each inner function maps the record before the call to the  *)
(* record after it.  w.threw is set once a call has thrown: the functions  *)
(* called after it do nothing, as the exception leaves the caller.         *)
(***************************************************************************)
MAX_CLUSTER_DURATION_MSEC == 5000
DEFAULT_TRACK_NUMBER == 1

\* Character codes of the strings the muxer writes.
Str_webm == <<119, 101, 98, 109>>
Str_webm_writer_js ==
  <<119, 101, 98, 109, 45, 119, 114, 105, 116, 101, 114, 45, 106, 115>>
Str_und == <<117, 110, 100>>
Str_V_ == <<86, 95>>
Str_VP9 == <<86, 80, 57>>

\* The keys of seekPoints, in the order for..in visits them.
SeekPointNames == <<"Cues", "SegmentInfo", "Tracks">>

WebMWriter(options) ==
  [options |-> options,
   writtenHeader |-> FALSE,
   videoWidth |-> 0,
   videoHeight |-> 0,
   firstTimestampEver |-> TRUE,
   earliestTimestamp |-> 0,
   clusterFrameBuffer |-> <<>>,
   clusterStartTime |-> 0,
   clusterDuration |-> 0,
   lastTimeCode |-> 0,
   seekPoints |->
     [Cues |-> [id |-> <<\h1c, \h53, \hbb, \h6b>>,
                positionEBML |-> [kind |-> "null"]],
      SegmentInfo |-> [id |-> <<\h15, \h49, \ha9, \h66>>,
                       positionEBML |-> [kind |-> "null"]],
      Tracks |-> [id |-> <<\h16, \h54, \hae, \h6b>>,
                  positionEBML |-> [kind |-> "null"]]],
   ebmlSegment |-> [kind |-> "undefined"],
   segmentDuration |-> Element(\h4489, "float64", EBMLFloat64(0)),
   seekHead |-> [kind |-> "undefined"],
   cues |-> <<>>,
   firstCueWritten |-> FALSE,
   blobBuffer |-> BlobBuffer,
   threw |-> FALSE]

\* fileOffsetToSegmentRelative without the subtraction.
fileOffsetToSegmentRelative_absolute(w, fileOffset) == fileOffset

fileOffsetToSegmentRelative(w, fileOffset) == fileOffset - w.ebmlSegment.dataOffset

\* The SeekHead element and seekPoints with a fresh positionEBML each.  In
\* the code the SeekPosition children of the element are the positionEBML
\* objects themselves.
createSeekHead(seekPoints) ==
  LET seekPositionEBMLTemplate == SizedElement(\h53ac, "number", 0, 5)
      points == [n \in DOMAIN seekPoints |->
                   [seekPoints[n] EXCEPT !.positionEBML = seekPositionEBMLTemplate]]
  IN [seekPoints |-> points,
      result |-> Element(\h114d9b74, "children",
        [k \in 1..Len(SeekPointNames) |->
           Element(\h4dbb, "children",
             <<Element(\h53ab, "bytes", points[SeekPointNames[k]].id),
               points[SeekPointNames[k]].positionEBML>>)])]

\* seekHead.data as the code sees it: the Seek elements, each holding the
\* current positionEBML object of its seek point.
seekHeadData(w) ==
  [k \in 1..Len(SeekPointNames) |->
     [w.seekHead.data[k] EXCEPT
        !.data[2] = w.seekPoints[SeekPointNames[k]].positionEBML]]

\* writeHeader once writeEBML has written the header: r holds the stream
\* and the objects as writeEBML has left them.
writeHeaderWritten(w, seekPoints, r) ==
  LET seg  == r.ebml[2]
      head == seg.data[1]
      info == seg.data[2]
      trk  == seg.data[3]
      w1 == [w EXCEPT
               !.seekHead = head,
               !.ebmlSegment = [seg EXCEPT !.data = <<>>],
               !.segmentDuration = info.data[4],
               !.seekPoints = [n \in DOMAIN seekPoints |->
                  [seekPoints[n] EXCEPT !.positionEBML =
                     head.data[CHOOSE k \in 1..Len(SeekPointNames) :
                                 SeekPointNames[k] = n].data[2]]]]
  IN IF getAsDataArrayThrows(r.buffer) THEN [w1 EXCEPT !.threw = TRUE]
     ELSE [w1 EXCEPT
             !.blobBuffer = blobWrite(@, getAsDataArray(r.buffer)),
             !.seekPoints.SegmentInfo.positionEBML.data =
                fileOffsetToSegmentRelative(w1, info.offset),
             !.seekPoints.Tracks.positionEBML.data =
                fileOffsetToSegmentRelative(w1, trk.offset),
             !.writtenHeader = TRUE]

writeHeader(w) ==
  IF w.threw THEN w ELSE
  LET sh == createSeekHead(w.seekPoints)
      ebmlHeader == Element(\h1a45dfa3, "children",
        <<Element(\h4286, "number", 1),          \* EBMLVersion
          Element(\h42f7, "number", 1),          \* EBMLReadVersion
          Element(\h42f2, "number", 4),          \* EBMLMaxIDLength
          Element(\h42f3, "number", 8),          \* EBMLMaxSizeLength
          Element(\h4282, "string", Str_webm),   \* DocType
          Element(\h4287, "number", 2),          \* DocTypeVersion
          Element(\h4285, "number", 2)>>)        \* DocTypeReadVersion
      segmentInfo == Element(\h1549a966, "children",
        <<Element(\h2ad7b1, "number", 1000000),  \* TimecodeScale
          Element(\h4d80, "string", Str_webm_writer_js),
          Element(\h5741, "string", Str_webm_writer_js),
          w.segmentDuration>>)
      videoProperties ==
        <<Element(\hb0, "number", w.videoWidth),
          Element(\hba, "number", w.videoHeight)>>
      tracks == Element(\h1654ae6b, "children",
        <<Element(\hae, "children",
            <<Element(\hd7, "number", DEFAULT_TRACK_NUMBER),
              Element(\h73c5, "number", DEFAULT_TRACK_NUMBER),
              Element(\h83, "number", 1),
              Element(\he0, "children", videoProperties),
              Element(\h9c, "number", 0),
              Element(\h22b59c, "string", Str_und),
              Element(\hb9, "number", 1),
              Element(\h88, "number", 1),
              Element(\h55aa, "number", 0),
              Element(\h86, "string", Str_V_ \o w.options.codec)>>)>>)
      ebmlSegment == SizedElement(\h18538067, "children",
                                  <<sh.result, segmentInfo, tracks>>, 0 - 1)
  IN writeHeaderWritten(w, sh.seekPoints,
       writeEBMLArray(ArrayBufferDataStream(256), w.blobBuffer.pos,
                      <<ebmlHeader, ebmlSegment>>))

\* createSimpleBlockForframe with track number 0 let through.
createSimpleBlockForframe_fromZero(frame) ==
  LET bufferStream == ArrayBufferDataStream(1 + 2 + 1)
      b1 == writeEBMLVarInt(bufferStream, frame.trackNumber)
      b2 == writeU16BE(b1, frame.timecode)
      b3 == writeByte(b2, (IF frame.type = "key" THEN 1 ELSE 0) * Pow2(7))
  IN IF ~(frame.trackNumber >= 0 /\ frame.trackNumber < 127)
     THEN [threw |-> TRUE, block |-> "none"]
     ELSE IF getAsDataArrayThrows(b3) THEN [threw |-> TRUE, block |-> "none"]
     ELSE [threw |-> FALSE,
           block |-> Element(\ha3, "children",
                             <<Raw(getAsDataArray(b3)), Raw(frame.frame)>>)]

\* A frame is [frame (the chunk's bytes), intime (the chunk's timestamp, in
\* ticks), type, trackNumber, timecode (ms)].
\* Returns the SimpleBlock element, or threw when the function throws.
createSimpleBlockForframe(frame) ==
  LET bufferStream == ArrayBufferDataStream(1 + 2 + 1)
      b1 == writeEBMLVarInt(bufferStream, frame.trackNumber)
      b2 == writeU16BE(b1, frame.timecode)
      b3 == writeByte(b2, (IF frame.type = "key" THEN 1 ELSE 0) * Pow2(7))
  IN IF ~(frame.trackNumber > 0 /\ frame.trackNumber < 127)
     THEN [threw |-> TRUE, block |-> "none"]
     ELSE IF getAsDataArrayThrows(b3) THEN [threw |-> TRUE, block |-> "none"]
     ELSE [threw |-> FALSE,
           block |-> Element(\ha3, "children",
                             <<Raw(getAsDataArray(b3)), Raw(frame.frame)>>)]

\* cluster.timecode is a number of ms.
createCluster(cluster) ==
  Element(\h1f43b675, "children",
          <<Element(\he7, "number", MathRoundQ(cluster.timecode, 1))>>)

\* addCuePoint keeping the file offset of the cluster as it is.
addCuePoint_fileOffset(w, trackIndex, clusterTime, clusterFileOffset) ==
  [w EXCEPT !.cues = Append(@,
     Element(\hbb, "children",
       <<Element(\hb3, "number", clusterTime),
         Element(\hb7, "children",
           <<Element(\hf7, "number", trackIndex),
             Element(\hf1, "number", clusterFileOffset)>>)>>))]

addCuePoint(w, trackIndex, clusterTime, clusterFileOffset) ==
  [w EXCEPT !.cues = Append(@,
     Element(\hbb, "children",
       <<Element(\hb3, "number", clusterTime),                    \* CueTime
         Element(\hb7, "children",                       \* CueTrackPositions
           <<Element(\hf7, "number", trackIndex),                \* CueTrack
             Element(\hf1, "number",                  \* CueClusterPosition
               fileOffsetToSegmentRelative(w, clusterFileOffset))>>)>>))]

\* writeCues once writeEBML has written the Cues element into r.
writeCuesWritten(w, r) ==
  LET w1 == [w EXCEPT !.firstCueWritten = TRUE, !.cues = r.ebml.data]
  IN IF getAsDataArrayThrows(r.buffer) THEN [w1 EXCEPT !.threw = TRUE]
     ELSE [w1 EXCEPT
             !.blobBuffer = blobWrite(@, getAsDataArray(r.buffer)),
             !.seekPoints.Cues.positionEBML.data =
                fileOffsetToSegmentRelative(w, r.ebml.offset)]

\* writeCues without the firstCueWritten guard.
writeCues_again(w) ==
  IF w.threw THEN w
  ELSE writeCuesWritten(w,
         writeEBML(ArrayBufferDataStream(16 + Len(w.cues) * 32),
                   w.blobBuffer.pos, Element(\h1c53bb6b, "children", w.cues)))

\* writeCues with a buffer of 16 + 8 bytes per cue.
writeCues_smallBuffer(w) ==
  IF w.threw \/ w.firstCueWritten THEN w
  ELSE writeCuesWritten(w,
         writeEBML(ArrayBufferDataStream(16 + Len(w.cues) * 8),
                   w.blobBuffer.pos, Element(\h1c53bb6b, "children", w.cues)))

writeCues(w) ==
  IF w.threw \/ w.firstCueWritten THEN w
  ELSE writeCuesWritten(w,
         writeEBML(ArrayBufferDataStream(16 + Len(w.cues) * 32),
                   w.blobBuffer.pos, Element(\h1c53bb6b, "children", w.cues)))

\* The sum of frame.byteLength over buf[lo..hi].
RECURSIVE rawImageSize(_, _, _)
rawImageSize(buf, lo, hi) ==
  IF lo > hi THEN 0
  ELSE IF lo = hi THEN Len(buf[lo].frame)
  ELSE rawImageSize(buf, lo, (lo + hi) \div 2)
       + rawImageSize(buf, (lo + hi) \div 2 + 1, hi)

\* The flush once writeEBML has written the cluster into r; frames and
\* duration are what it leaves in clusterFrameBuffer and clusterDuration.
flushClusterWritten(w, r, frames, duration) ==
  IF getAsDataArrayThrows(r.buffer) THEN [w EXCEPT !.threw = TRUE]
  ELSE [addCuePoint(
          [w EXCEPT !.blobBuffer = blobWrite(@, getAsDataArray(r.buffer))],
          DEFAULT_TRACK_NUMBER, MathRound(w.clusterStartTime), r.ebml.offset)
        EXCEPT !.clusterFrameBuffer = frames, !.clusterDuration = duration]

\* The flush of a buffer that is not empty, blocks being the SimpleBlocks of
\* its frames.
flushClusterBlocks(w, blocks, frames, duration) ==
  LET n == Len(w.clusterFrameBuffer)
  IN IF \E i \in 1..n : blocks[i].threw THEN [w EXCEPT !.threw = TRUE]
     ELSE flushClusterWritten(w,
            writeEBML(ArrayBufferDataStream(
                        rawImageSize(w.clusterFrameBuffer, 1, n) + n * 64),
                      w.blobBuffer.pos,
                      [createCluster([timecode |-> MathRound(w.clusterStartTime)])
                         EXCEPT !.data = @ \o [i \in 1..n |-> blocks[i].block]]),
            frames, duration)

\* A flush that does not empty the buffer.
flushClusterFrameBuffer_keepsBuffer(w) ==
  IF w.threw \/ Len(w.clusterFrameBuffer) = 0 THEN w
  ELSE flushClusterBlocks(w,
         [i \in 1..Len(w.clusterFrameBuffer) |->
            createSimpleBlockForframe(w.clusterFrameBuffer[i])],
         w.clusterFrameBuffer, 0)

\* A flush that does not reset clusterDuration.
flushClusterFrameBuffer_keepsDuration(w) ==
  IF w.threw \/ Len(w.clusterFrameBuffer) = 0 THEN w
  ELSE flushClusterBlocks(w,
         [i \in 1..Len(w.clusterFrameBuffer) |->
            createSimpleBlockForframe(w.clusterFrameBuffer[i])],
         <<>>, w.clusterDuration)

\* The buffer is emptied and clusterDuration reset once the cluster is
\* written.
flushClusterFrameBuffer(w) ==
  IF w.threw \/ Len(w.clusterFrameBuffer) = 0 THEN w
  ELSE flushClusterBlocks(w,
         [i \in 1..Len(w.clusterFrameBuffer) |->
            createSimpleBlockForframe(w.clusterFrameBuffer[i])],
         <<>>, 0)

\* addFrameToCluster without the flush at the limit.
addFrameToCluster_noFlush(w, frame) ==
  IF w.threw THEN w ELSE
  LET time == IF w.firstTimestampEver THEN 0
              ELSE frame.intime - w.earliestTimestamp
      clusterStartTime == IF w.clusterDuration = 0 THEN time
                          ELSE w.clusterStartTime
      timecode == MathRound(time - clusterStartTime)
      f  == [frame |-> frame.frame, intime |-> frame.intime,
             type |-> frame.type, trackNumber |-> DEFAULT_TRACK_NUMBER,
             timecode |-> timecode]
  IN [w EXCEPT
        !.earliestTimestamp = IF w.firstTimestampEver THEN frame.intime ELSE @,
        !.firstTimestampEver = FALSE,
        !.lastTimeCode = time,
        !.clusterStartTime = clusterStartTime,
        !.clusterFrameBuffer = Append(@, f),
        !.clusterDuration = timecode + 1]

\* frame.intime / 1000 is the time in ms: in ticks, frame.intime itself.
addFrameToCluster(w, frame) ==
  IF w.threw THEN w ELSE
  LET time == IF w.firstTimestampEver THEN 0
              ELSE frame.intime - w.earliestTimestamp
      clusterStartTime == IF w.clusterDuration = 0 THEN time
                          ELSE w.clusterStartTime
      \* Frame timecodes are relative to the start of their cluster
      timecode == MathRound(time - clusterStartTime)
      f  == [frame |-> frame.frame, intime |-> frame.intime,
             type |-> frame.type, trackNumber |-> DEFAULT_TRACK_NUMBER,
             timecode |-> timecode]
      w1 == [w EXCEPT
               !.earliestTimestamp = IF w.firstTimestampEver THEN frame.intime
                                     ELSE @,
               !.firstTimestampEver = FALSE,
               !.lastTimeCode = time,
               !.clusterStartTime = clusterStartTime,
               !.clusterFrameBuffer = Append(@, f),
               !.clusterDuration = timecode + 1]
  IN IF w1.clusterDuration >= MAX_CLUSTER_DURATION_MSEC
     THEN flushClusterFrameBuffer(w1)
     ELSE w1

\* rewriteSeekHead once writeEBML has written the SeekHead's data into r.
rewriteSeekHeadWritten(w, r) ==
  LET oldPos == w.blobBuffer.pos
      w1 == [w EXCEPT
               !.seekHead.data = r.ebml,
               !.seekPoints = [n \in DOMAIN w.seekPoints |->
                  [w.seekPoints[n] EXCEPT !.positionEBML =
                     r.ebml[CHOOSE k \in 1..Len(SeekPointNames) :
                              SeekPointNames[k] = n].data[2]]]]
  IN IF getAsDataArrayThrows(r.buffer)
     THEN [w1 EXCEPT !.threw = TRUE,
                     !.blobBuffer = blobSeek(@, w.seekHead.dataOffset)]
     ELSE [w1 EXCEPT !.blobBuffer =
             blobSeek(blobWrite(blobSeek(@, w.seekHead.dataOffset),
                                getAsDataArray(r.buffer)), oldPos)]

\* The SeekHead element's data payload is written again (not its id or
\* size).
rewriteSeekHead(w) ==
  IF w.threw THEN w
  ELSE rewriteSeekHeadWritten(w,
         writeEBMLArray(ArrayBufferDataStream(w.seekHead.size),
                        w.seekHead.dataOffset, seekHeadData(w)))

\* rewriteDuration writing from the start of the element.
rewriteDuration_atElement(w) ==
  IF w.threw THEN w ELSE
  LET buffer == writeDoubleBE(ArrayBufferDataStream(8),
                              [num |-> w.lastTimeCode, den |-> TicksPerMs])
      oldPos == w.blobBuffer.pos
  IN [w EXCEPT !.blobBuffer =
        blobSeek(blobWrite(blobSeek(@, w.segmentDuration.offset),
                           getAsDataArray(buffer)), oldPos)]

rewriteDuration(w) ==
  IF w.threw THEN w ELSE
  LET buffer == writeDoubleBE(ArrayBufferDataStream(8),
                              [num |-> w.lastTimeCode, den |-> TicksPerMs])
      oldPos == w.blobBuffer.pos
  IN [w EXCEPT !.blobBuffer =
        blobSeek(blobWrite(blobSeek(@, w.segmentDuration.dataOffset),
                           getAsDataArray(buffer)), oldPos)]

\* addFrame once the header is written.
\* frame is the argument of addFrame: [isChunk (its constructor is
\* EncodedVideoChunk), data (what copyTo gives), timestamp (ticks), type].
addFrameChunk(w, frame) ==
  IF frame.isChunk
  THEN addFrameToCluster(w, [frame |-> frame.data,
                             intime |-> frame.timestamp,
                             type |-> frame.type])
  ELSE w

\* addFrame without the writtenHeader guard.
addFrame_headerEachCall(w, frame) ==
  addFrameChunk(writeHeader([w EXCEPT !.videoWidth = w.options.width,
                                      !.videoHeight = w.options.height]),
                frame)

addFrame(w, frame) ==
  addFrameChunk(IF ~w.writtenHeader
                THEN writeHeader([w EXCEPT !.videoWidth = w.options.width,
                                           !.videoHeight = w.options.height])
                ELSE w,
                frame)

\* The last step of complete(): blobBuffer.complete().
completeBlob(w) ==
  IF w.threw THEN w ELSE [w EXCEPT !.blobBuffer = blobComplete(@)]

\* complete() once the header is written.  An exception thrown by a step
\* leaves complete() at that step: the later steps do nothing once threw is
\* set.
completeSteps(w) ==
  IF w.threw THEN w
  ELSE completeBlob(rewriteDuration(rewriteSeekHead(writeCues(
         flushClusterFrameBuffer([w EXCEPT !.firstTimestampEver = TRUE])))))

complete(w) ==
  completeSteps(IF ~w.writtenHeader THEN writeHeader(w) ELSE w)

(***************************************************************************)
(* The state: the closure variables of one WebMWriter, and the history of  *)
(* the calls made on it.                                                   *)
(***************************************************************************)
VARIABLES
  options, writtenHeader, videoWidth, videoHeight, firstTimestampEver,
  earliestTimestamp, clusterFrameBuffer, clusterStartTime, clusterDuration,
  lastTimeCode, seekPoints, ebmlSegment, segmentDuration, seekHead, cues,
  firstCueWritten, blobBuffer, threw,
  chunks,      \* history: the EncodedVideoChunks passed to addFrame, in order
  nAddFrame,   \* history: the number of addFrame calls
  lastCall,    \* history: the last call made on the writer
  prevCall,    \* history: the call made before it
  feed         \* the driver of the specification, where it has one

writerVars ==
  <<options, writtenHeader, videoWidth, videoHeight, firstTimestampEver,
    earliestTimestamp, clusterFrameBuffer, clusterStartTime, clusterDuration,
    lastTimeCode, seekPoints, ebmlSegment, segmentDuration, seekHead, cues,
    firstCueWritten, blobBuffer, threw>>

vars == <<writerVars, chunks, nAddFrame, lastCall, prevCall, feed>>

\* The writer as a record, and the assignment of a record to the writer.
Writer ==
  [options |-> options, writtenHeader |-> writtenHeader,
   videoWidth |-> videoWidth, videoHeight |-> videoHeight,
   firstTimestampEver |-> firstTimestampEver,
   earliestTimestamp |-> earliestTimestamp,
   clusterFrameBuffer |-> clusterFrameBuffer,
   clusterStartTime |-> clusterStartTime, clusterDuration |-> clusterDuration,
   lastTimeCode |-> lastTimeCode, seekPoints |-> seekPoints,
   ebmlSegment |-> ebmlSegment, segmentDuration |-> segmentDuration,
   seekHead |-> seekHead, cues |-> cues, firstCueWritten |-> firstCueWritten,
   blobBuffer |-> blobBuffer, threw |-> threw]

WriterBecomes(w) ==
  /\ options' = w.options
  /\ writtenHeader' = w.writtenHeader
  /\ videoWidth' = w.videoWidth
  /\ videoHeight' = w.videoHeight
  /\ firstTimestampEver' = w.firstTimestampEver
  /\ earliestTimestamp' = w.earliestTimestamp
  /\ clusterFrameBuffer' = w.clusterFrameBuffer
  /\ clusterStartTime' = w.clusterStartTime
  /\ clusterDuration' = w.clusterDuration
  /\ lastTimeCode' = w.lastTimeCode
  /\ seekPoints' = w.seekPoints
  /\ ebmlSegment' = w.ebmlSegment
  /\ segmentDuration' = w.segmentDuration
  /\ seekHead' = w.seekHead
  /\ cues' = w.cues
  /\ firstCueWritten' = w.firstCueWritten
  /\ blobBuffer' = w.blobBuffer
  /\ threw' = w.threw

WriterIs(w) ==
  /\ options = w.options
  /\ writtenHeader = w.writtenHeader
  /\ videoWidth = w.videoWidth
  /\ videoHeight = w.videoHeight
  /\ firstTimestampEver = w.firstTimestampEver
  /\ earliestTimestamp = w.earliestTimestamp
  /\ clusterFrameBuffer = w.clusterFrameBuffer
  /\ clusterStartTime = w.clusterStartTime
  /\ clusterDuration = w.clusterDuration
  /\ lastTimeCode = w.lastTimeCode
  /\ seekPoints = w.seekPoints
  /\ ebmlSegment = w.ebmlSegment
  /\ segmentDuration = w.segmentDuration
  /\ seekHead = w.seekHead
  /\ cues = w.cues
  /\ firstCueWritten = w.firstCueWritten
  /\ blobBuffer = w.blobBuffer
  /\ threw = w.threw

\* The history of the calls after a call named call.
Called(call) ==
  /\ lastCall' = call
  /\ prevCall' = lastCall

Us(n) == n * TicksPerUs

(***************************************************************************)
(* Spec: a caller of the writer's two methods, in any order.               *)
(***************************************************************************)
\* The options renderToWritableStream gives the writer.
WriterOptions ==
  {[codec |-> Str_VP9, width |-> 640, height |-> 480]}

\* The chunks a caller may pass, in any order: the second 2.5 ms after the
\* first (a time that is rounded), the third 5000 ms after the first (the
\* cluster limit), the fourth 2.5 ms after the third.
ChunkInputs ==
  {[timestamp |-> Us(1000), type |-> "key", byteLength |-> 1],
   [timestamp |-> Us(3500), type |-> "delta", byteLength |-> 2],
   [timestamp |-> Us(5001000), type |-> "key", byteLength |-> 1],
   [timestamp |-> Us(5003500), type |-> "delta", byteLength |-> 3]}

\* The k-th chunk of the session carries k in each of its bytes.
ChunkData(k, byteLength) == [i \in 1..byteLength |-> k % 256]

NoFeed == [phase |-> "none"]

Init ==
  /\ \E o \in WriterOptions : WriterIs(WebMWriter(o))
  /\ chunks = <<>>
  /\ nAddFrame = 0
  /\ lastCall = "none"
  /\ prevCall = "none"
  /\ feed = NoFeed

\* webmWriter.addFrame(chunk), chunk an EncodedVideoChunk.
AddFrame(c) ==
  /\ nAddFrame < MaxFrames
  /\ LET chunk == [isChunk |-> TRUE,
                   data |-> ChunkData(Len(chunks) + 1, c.byteLength),
                   timestamp |-> c.timestamp, type |-> c.type]
     IN /\ WriterBecomes(addFrame(Writer, chunk))
        /\ chunks' = Append(chunks, chunk)
  /\ nAddFrame' = nAddFrame + 1
  /\ Called("addFrame")
  /\ UNCHANGED feed

\* webmWriter.addFrame(x), x not an EncodedVideoChunk.
AddOther ==
  /\ nAddFrame < MaxFrames
  /\ WriterBecomes(addFrame(Writer, [isChunk |-> FALSE]))
  /\ nAddFrame' = nAddFrame + 1
  /\ Called("addFrame")
  /\ UNCHANGED <<chunks, feed>>

\* webmWriter.complete()
Complete ==
  /\ WriterBecomes(complete(Writer))
  /\ Called("complete")
  /\ UNCHANGED <<chunks, nAddFrame, feed>>

Next ==
  \/ \E c \in ChunkInputs : AddFrame(c)
  \/ AddOther
  \/ Complete

Spec == Init /\ [][Next]_vars

(***************************************************************************)
(* SpecJitter: a caller of the writer's two methods whose chunks are 1 ms  *)
(* apart and come in any order, as addFrame accepts them.                  *)
(***************************************************************************)
JitterChunkInputs ==
  {[timestamp |-> Us(0), type |-> "key", byteLength |-> 1],
   [timestamp |-> Us(1000), type |-> "delta", byteLength |-> 2],
   [timestamp |-> Us(2000), type |-> "delta", byteLength |-> 1]}

NextJitter ==
  \/ \E c \in JitterChunkInputs : AddFrame(c)
  \/ Complete

SpecJitter == Init /\ [][NextJitter]_vars

(***************************************************************************)
(* SpecSparse: a caller of the writer's two methods whose chunks come in   *)
(* the order of their timestamps, up to 40 s apart.                        *)
(***************************************************************************)
SparseChunkInputs ==
  {[timestamp |-> Us(0), type |-> "key", byteLength |-> 1],
   [timestamp |-> Us(32767000), type |-> "delta", byteLength |-> 1],
   [timestamp |-> Us(32768000), type |-> "delta", byteLength |-> 2],
   [timestamp |-> Us(40000000), type |-> "key", byteLength |-> 1]}

\* webmWriter.addFrame(chunk), chunk no older than the chunk before it.
AddFrameInOrder(c) ==
  /\ IF chunks = <<>> THEN TRUE
     ELSE c.timestamp >= chunks[Len(chunks)].timestamp
  /\ AddFrame(c)

NextSparse ==
  \/ \E c \in SparseChunkInputs : AddFrameInOrder(c)
  \/ Complete

SpecSparse == Init /\ [][NextSparse]_vars

(***************************************************************************)
(* SpecFeed: renderToWritableStream drives the writer.  A step of the loop *)
(* renders and encodes frame frameIndex, and the encoder's output callback *)
(* passes its chunk to addFrame; the chunks come in the order of the       *)
(* frames.  Times are in ticks.                                            *)
(***************************************************************************)
MAX_OUTPUT_CHUNK_BYTES == 1
KEYFRAME_FREQUENCY == 150

\* The RenderOptions of the exports: 1 s and 6 s at 30 fps, 7 s at 1 fps,
\* 3 s at 2 fps from 0.5 s.
RenderOptions ==
  {[start |-> 0, length |-> 1000000, width |-> 640, height |-> 480, fps |-> 30],
   [start |-> 0, length |-> 6000000, width |-> 640, height |-> 480, fps |-> 30],
   [start |-> 0, length |-> 7000000, width |-> 16, height |-> 16, fps |-> 1],
   [start |-> 500000, length |-> 3000000, width |-> 16, height |-> 16, fps |-> 2]}

\* options.fps * (options.length / 1e6), for a length of whole seconds
totalFrames(o) == (o.fps * o.length) \div 1000000

\* options.length / totalFrames
frameLength(o) == Us(o.length) \div totalFrames(o)

\* frameStart without options.start.
frameStart_fromZero(o, frameIndex) == frameIndex * frameLength(o)

frameStart(o, frameIndex) == Us(o.start) + frameIndex * frameLength(o)

\* The chunk the encoder outputs for frame frameIndex: the timestamp of the
\* VideoFrame, a whole number of microseconds; a key frame where the loop
\* asks for one.
OutputChunk(o, frameIndex) ==
  [isChunk |-> TRUE,
   data |-> ChunkData(frameIndex, MAX_OUTPUT_CHUNK_BYTES),
   timestamp |-> Us(frameStart(o, frameIndex) \div TicksPerUs),
   type |-> IF frameIndex % KEYFRAME_FREQUENCY = 0 THEN "key" ELSE "delta"]

InitFeed ==
  /\ \E o \in RenderOptions :
       /\ feed = [phase |-> "loop", options |-> o, frameIndex |-> 0]
       /\ WriterIs(WebMWriter([codec |-> Str_VP9, width |-> o.width,
                               height |-> o.height]))
  /\ chunks = <<>>
  /\ nAddFrame = 0
  /\ lastCall = "none"
  /\ prevCall = "none"

\* One turn of the loop and the output callback of its frame.
EncodeFrame ==
  /\ feed.phase = "loop"
  /\ feed.frameIndex < totalFrames(feed.options)
  /\ LET chunk == OutputChunk(feed.options, feed.frameIndex)
     IN /\ WriterBecomes(addFrame(Writer, chunk))
        /\ chunks' = Append(chunks, chunk)
  /\ nAddFrame' = nAddFrame + 1
  /\ Called("addFrame")
  /\ feed' = [feed EXCEPT !.frameIndex = @ + 1]

\* After the loop: encoder.flush(), then webmWriter.complete().
FinishUp ==
  /\ feed.phase = "loop"
  /\ feed.frameIndex = totalFrames(feed.options)
  /\ WriterBecomes(complete(Writer))
  /\ Called("complete")
  /\ feed' = [feed EXCEPT !.phase = "done"]
  /\ UNCHANGED <<chunks, nAddFrame>>

\* The encoder's error callback: webmWriter.complete(); the closed encoder
\* outputs no further chunk.
EncoderError ==
  /\ feed.phase = "loop"
  /\ WriterBecomes(complete(Writer))
  /\ Called("complete")
  /\ feed' = [feed EXCEPT !.phase = "error"]
  /\ UNCHANGED <<chunks, nAddFrame>>

NextFeed ==
  \/ EncodeFrame
  \/ FinishUp
  \/ EncoderError

SpecFeed == InitFeed /\ [][NextFeed]_vars

(***************************************************************************)
(* SpecExport: renderToWritableStream with its VideoEncoder.  The loop     *)
(* stops at each await (renderFrame, the dequeue event, flush); between    *)
(* two of them the encoder takes frames off its queue, outputs chunks or   *)
(* reports an error, in any order.  feed holds the locals of the call and  *)
(* the state of the encoder.                                               *)
(***************************************************************************)
MAX_ENCODER_QUEUE_SIZE == 30

\* The frames the encoder may hold between taking them off its queue and
\* calling output.
MaxEncoding == 1

\* The RenderOptions of the short exports: 3 frames of 0.5 s from 0.5 s,
\* 3 frames of a third of a second.
ShortExports ==
  {[start |-> 500000, length |-> 1500000, width |-> 16, height |-> 16,
    fps |-> 2],
   [start |-> 0, length |-> 1000000, width |-> 16, height |-> 16, fps |-> 3]}

\* The RenderOptions of the long export: 152 frames at 40 fps.
LongExports ==
  {[start |-> 0, length |-> 3800000, width |-> 16, height |-> 16, fps |-> 40]}

\* What goes wrong during the export.
Faults == {"none", "render", "encoder"}

\* The exports: a short one with or without a failure, a long one without.
Exports ==
  {[options |-> o, fault |-> f] : o \in ShortExports, f \in Faults}
  \cup {[options |-> o, fault |-> "none"] : o \in LongExports}

\* The condition that ends the loop "wait for the encoder to have capacity".
hasCapacity_always(encodeQueueSize) == TRUE

hasCapacity(encodeQueueSize) == ~(encodeQueueSize > MAX_ENCODER_QUEUE_SIZE)

keyFrame_first(frameIndex) == frameIndex = 0

keyFrame(frameIndex) == frameIndex % KEYFRAME_FREQUENCY = 0

InitExport ==
  /\ \E x \in Exports :
       /\ feed = [phase |-> "export", options |-> x.options,
                  fault |-> x.fault,
                  pc |-> "render", frameIndex |-> 0, waited |-> FALSE,
                  encoder |-> "configured", encodeQueueSize |-> 0,
                  encoding |-> 0, submitted |-> <<>>, failure |-> "none",
                  submittedAtFailure |-> 0, completeInvoked |-> FALSE,
                  submittedAtComplete |-> 0, deliveredAtComplete |-> 0]
       /\ WriterIs(WebMWriter([codec |-> Str_VP9,
                               width |-> x.options.width,
                               height |-> x.options.height]))
  /\ chunks = <<>>
  /\ nAddFrame = 0
  /\ lastCall = "none"
  /\ prevCall = "none"

ExportRunning == feed.phase = "export" /\ feed.pc \notin {"done", "rejected"}

\* await this.renderFrame(...) resolves; the VideoFrame is made.  A step of
\* the export is given in two parts: what it does to the locals of the call
\* and the encoder (feed), and what it does to the writer.
RenderFrameResolvesFeed ==
  /\ ExportRunning
  /\ feed.pc = "render"
  /\ feed' = [feed EXCEPT !.pc = "capacity", !.waited = FALSE]

RenderFrameResolves ==
  /\ RenderFrameResolvesFeed
  /\ UNCHANGED <<writerVars, chunks, nAddFrame, lastCall, prevCall>>

\* await this.renderFrame(...) rejects: so does renderToWritableStream.
RenderFrameRejects ==
  /\ ExportRunning
  /\ feed.pc = "render"
  /\ feed.fault = "render"
  /\ feed' = [feed EXCEPT !.pc = "rejected", !.failure = "render",
                          !.submittedAtFailure = Len(feed.submitted)]
  /\ UNCHANGED <<writerVars, chunks, nAddFrame, lastCall, prevCall>>

\* The queue is over the limit: the loop awaits a dequeue event.
AwaitDequeueFeed ==
  /\ ExportRunning
  /\ feed.pc = "capacity"
  /\ ~hasCapacity(feed.encodeQueueSize)
  /\ feed' = [feed EXCEPT !.pc = "waiting", !.waited = TRUE]

AwaitDequeue ==
  /\ AwaitDequeueFeed
  /\ UNCHANGED <<writerVars, chunks, nAddFrame, lastCall, prevCall>>

\* encoder.encode(frame, { keyFrame }) and the end of the turn of the loop.
EncoderEncodeFeed ==
  /\ ExportRunning
  /\ feed.pc = "capacity"
  /\ hasCapacity(feed.encodeQueueSize)
  /\ feed.encoder = "configured"
  /\ feed' = [feed EXCEPT
       !.submitted = Append(@, [timestamp |-> frameStart(feed.options,
                                                         feed.frameIndex),
                                keyFrame |-> keyFrame(feed.frameIndex)]),
       !.encodeQueueSize = @ + 1,
       !.frameIndex = @ + 1,
       !.pc = IF feed.frameIndex + 1 < totalFrames(feed.options)
              THEN "render" ELSE "flush"]

EncoderEncode ==
  /\ EncoderEncodeFeed
  /\ UNCHANGED <<writerVars, chunks, nAddFrame, lastCall, prevCall>>

\* encoder.encode on a closed encoder throws: renderToWritableStream rejects.
EncoderEncodeThrows ==
  /\ ExportRunning
  /\ feed.pc = "capacity"
  /\ hasCapacity(feed.encodeQueueSize)
  /\ feed.encoder = "closed"
  /\ feed' = [feed EXCEPT !.pc = "rejected"]
  /\ UNCHANGED <<writerVars, chunks, nAddFrame, lastCall, prevCall>>

\* A dequeue whose event does not reach the waiting loop.
EncoderDequeueFeed_noEvent ==
  /\ feed.phase = "export"
  /\ feed.encoder = "configured"
  /\ feed.encodeQueueSize > 0
  /\ feed.encoding < MaxEncoding
  /\ feed' = [feed EXCEPT !.encodeQueueSize = @ - 1,
                          !.encoding = @ + 1]

\* The encoder takes a frame off its queue and fires "dequeue".
EncoderDequeueFeed ==
  /\ feed.phase = "export"
  /\ feed.encoder = "configured"
  /\ feed.encodeQueueSize > 0
  /\ feed.encoding < MaxEncoding
  /\ feed' = [feed EXCEPT !.encodeQueueSize = @ - 1,
                          !.encoding = @ + 1,
                          !.pc = IF @ = "waiting" THEN "capacity" ELSE @]

EncoderDequeue ==
  /\ EncoderDequeueFeed
  /\ UNCHANGED <<writerVars, chunks, nAddFrame, lastCall, prevCall>>

\* The output callback: webmWriter.addFrame(chunk), the chunks in the order
\* of the frames.
EncoderOutputFeed ==
  /\ feed.phase = "export"
  /\ feed.encoder = "configured"
  /\ feed.encoding > 0
  /\ feed' = [feed EXCEPT !.encoding = @ - 1]

EncoderOutput ==
  /\ EncoderOutputFeed
  /\ LET chunk == OutputChunk(feed.options, Len(chunks))
     IN /\ WriterBecomes(addFrame(Writer, chunk))
        /\ chunks' = Append(chunks, chunk)
  /\ nAddFrame' = nAddFrame + 1
  /\ Called("addFrame")

\* await encoder.flush() resolves once every frame is output; then
\* await webmWriter.complete(); encoder.close().
FlushAndCompleteFeed ==
  /\ ExportRunning
  /\ feed.pc = "flush"
  /\ feed.encoder = "configured"
  /\ feed.encodeQueueSize = 0
  /\ feed.encoding = 0
  /\ feed' = [feed EXCEPT !.pc = "done", !.encoder = "closed",
                          !.completeInvoked = TRUE,
                          !.submittedAtComplete = Len(feed.submitted),
                          !.deliveredAtComplete = Len(chunks)]

FlushAndComplete ==
  /\ FlushAndCompleteFeed
  /\ WriterBecomes(complete(Writer))
  /\ Called("complete")
  /\ UNCHANGED <<chunks, nAddFrame>>

\* The encoder fails: it is closed, its queue is emptied (a dequeue event),
\* a pending flush() is rejected, and the error callback runs:
\* webmWriter.complete().
EncoderErrorCallback ==
  /\ ExportRunning
  /\ feed.fault = "encoder"
  /\ feed.encoder = "configured"
  /\ WriterBecomes(complete(Writer))
  /\ Called("complete")
  /\ feed' = [feed EXCEPT
       !.encoder = "closed", !.encodeQueueSize = 0, !.encoding = 0,
       !.failure = "encoder",
       !.submittedAtFailure = Len(feed.submitted),
       !.completeInvoked = TRUE,
       !.submittedAtComplete = Len(feed.submitted),
       !.deliveredAtComplete = Len(chunks),
       !.pc = IF @ = "flush" THEN "rejected"
              ELSE IF @ = "waiting" THEN "capacity" ELSE @]
  /\ UNCHANGED <<chunks, nAddFrame>>

NextExport ==
  \/ RenderFrameResolves
  \/ RenderFrameRejects
  \/ AwaitDequeue
  \/ EncoderEncode
  \/ EncoderEncodeThrows
  \/ EncoderDequeue
  \/ EncoderOutput
  \/ FlushAndComplete
  \/ EncoderErrorCallback

SpecExport == InitExport /\ [][NextExport]_vars

\* SpecExportFair: the export under a fair encoder and event loop.  The
\* loop is at one await at a time: a render that can resolve does, and a
\* continuation of the loop that can run does.  The encoder takes the frames
\* off its queue and outputs their chunks.  Fairness is stated on what the
\* steps do to feed, which no other step does.
LoopStep ==
  \/ RenderFrameResolvesFeed
  \/ AwaitDequeueFeed
  \/ EncoderEncodeFeed
  \/ FlushAndCompleteFeed

EncoderStep ==
  \/ EncoderDequeueFeed
  \/ EncoderOutputFeed

FairExport ==
  /\ WF_feed(LoopStep)
  /\ WF_feed(EncoderStep)

SpecExportFair == InitExport /\ [][NextExport]_vars /\ FairExport

(***************************************************************************)
(* SpecRender: one call of renderFrame.  The canvas transform is the       *)
(* matrix [a c e; b d f; 0 0 1]; a rotation is a number of quarter turns,  *)
(* so that every matrix has whole entries.  The callbacks of clips.map run *)
(* one after the other up to their first await; a clip whose image is      *)
(* cached goes on in the microtasks of the same task, a clip whose image   *)
(* is loading goes on in the task of its load event, and the load events   *)
(* come in any order.  feed holds the clips, the canvas and the position   *)
(* of each clip's render.                                                  *)
(***************************************************************************)
MaxClips == 3

\* The transform of a new canvas.
IdentityTransform == [a |-> 1, b |-> 0, c |-> 0, d |-> 1, e |-> 0, f |-> 0]

\* The product m * n of two transforms.
Multiply(m, n) ==
  [a |-> m.a * n.a + m.c * n.b,
   b |-> m.b * n.a + m.d * n.b,
   c |-> m.a * n.c + m.c * n.d,
   d |-> m.b * n.c + m.d * n.d,
   e |-> m.a * n.e + m.c * n.f + m.e,
   f |-> m.b * n.e + m.d * n.f + m.f]

\* cos and sin of a number of quarter turns
Cos(quarters) == CASE quarters % 4 = 0 -> 1 [] quarters % 4 = 2 -> 0 - 1
                   [] OTHER -> 0

Sin(quarters) == CASE quarters % 4 = 1 -> 1 [] quarters % 4 = 3 -> 0 - 1
                   [] OTHER -> 0

\* canvas.transform(a, b, c, d, e, f)
canvasTransform(current, a, b, c, d, e, f) ==
  Multiply(current, [a |-> a, b |-> b, c |-> c, d |-> d, e |-> e, f |-> f])

\* canvas.rotate(angle), angle a number of quarter turns
canvasRotate(current, quarters) ==
  Multiply(current, [a |-> Cos(quarters), b |-> Sin(quarters),
                     c |-> 0 - Sin(quarters), d |-> Cos(quarters),
                     e |-> 0, f |-> 0])

\* The time renderFrame is called with, in microseconds.
RenderTime == 500000

\* The properties of a clip: on screen at RenderTime or not; scaled and
\* moved, or turned by a quarter as well.
ClipProperties ==
  {[renderStart |-> rs, renderLength |-> 1000000, posWidth |-> pw,
    posHeight |-> 3, posLeft |-> 5, posTop |-> 7, rotation |-> rot] :
     rs \in {0, 2000000}, pw \in {2}, rot \in {0, 1}}

\* An ImageClip: its properties, and whether its resource holds its image
\* from an earlier frame.
ImageClips == {[properties |-> pr, image |-> i] :
                 pr \in ClipProperties, i \in BOOLEAN}

\* this.clips
ClipLists ==
  UNION {[1..n -> ImageClips] : n \in 1..MaxClips}

needsRender(clip, time) ==
  /\ time >= clip.properties.renderStart
  /\ time < clip.properties.renderStart + clip.properties.renderLength

\* Clip.render up to the await: the transform the clip leaves on the canvas.
renderTransform(current, clip) ==
  canvasRotate(canvasTransform(current, clip.properties.posWidth, 0, 0,
                               clip.properties.posHeight,
                               clip.properties.posLeft,
                               clip.properties.posTop),
               clip.properties.rotation)

\* The callback of clips.map for one clip, up to its first await.  r holds
\* the canvas transform and, for each clip so far, its oldTransform and the
\* place its render has reached.
mapCallback(r, clip) ==
  IF ~needsRender(clip, RenderTime)
  THEN [transform |-> r.transform,
        oldTransform |-> Append(r.oldTransform, r.transform),
        pc |-> Append(r.pc, "skipped")]
  ELSE [transform |-> renderTransform(r.transform, clip),
        oldTransform |-> Append(r.oldTransform, r.transform),
        pc |-> Append(r.pc, IF clip.image THEN "microtask" ELSE "loading")]

RECURSIVE clipsMap(_, _, _)
\* this.clips.map(...) from clip k on.
clipsMap(r, clips, k) ==
  IF k > Len(clips) THEN r
  ELSE clipsMap(mapCallback(r, clips[k]), clips, k + 1)

\* The clips whose render goes on in the microtasks, in the order of the list.
RECURSIVE microtaskClips(_, _)
microtaskClips(pc, k) ==
  IF k > Len(pc) THEN <<>>
  ELSE (IF pc[k] = "microtask" THEN <<k>> ELSE <<>>)
       \o microtaskClips(pc, k + 1)

\* The microtasks that follow clips.map: the drawImage of each clip with a
\* cached image, then the setTransform(oldTransform) of each of them.
runMicrotasks(r, ready) ==
  [transform |-> IF ready = <<>> THEN r.transform
                 ELSE r.oldTransform[ready[Len(ready)]],
   oldTransform |-> r.oldTransform,
   pc |-> [k \in 1..Len(r.pc) |->
             IF r.pc[k] = "microtask" THEN "done" ELSE r.pc[k]],
   drawn |-> [i \in 1..Len(ready) |->
                [clip |-> ready[i], transform |-> r.transform]]]

renderFrameStarted(clips, r) ==
  [phase |-> "render", frame |-> "started", clips |-> clips,
   transform |-> r.transform, oldTransform |-> r.oldTransform,
   pc |-> r.pc, drawn |-> r.drawn]

InitRender ==
  /\ \E o \in WriterOptions : WriterIs(WebMWriter(o))
  /\ chunks = <<>>
  /\ nAddFrame = 0
  /\ lastCall = "none"
  /\ prevCall = "none"
  /\ \E clips \in ClipLists :
       feed = [phase |-> "render", frame |-> "pending", clips |-> clips,
               transform |-> IdentityTransform, oldTransform |-> <<>>,
               pc |-> <<>>, drawn |-> <<>>]

\* renderFrame is called: the canvas is made and Promise.all(clips.map(...))
\* runs to its await; the microtasks follow.
RenderFrameCalled ==
  /\ feed.phase = "render"
  /\ feed.frame = "pending"
  /\ feed' = renderFrameStarted(
       feed.clips,
       runMicrotasks(
         clipsMap([transform |-> feed.transform, oldTransform |-> <<>>,
                   pc |-> <<>>], feed.clips, 1),
         microtaskClips(
           clipsMap([transform |-> feed.transform, oldTransform |-> <<>>,
                     pc |-> <<>>], feed.clips, 1).pc, 1)))
  /\ UNCHANGED <<writerVars, chunks, nAddFrame, lastCall, prevCall>>

\* The load event of the image of clip k: asImage returns, simpleRender
\* draws, render sets the transform back.
ImageLoaded(k) ==
  /\ feed.phase = "render"
  /\ feed.frame \in {"started", "rejected"}
  /\ feed.pc[k] = "loading"
  /\ feed' = [feed EXCEPT
       !.clips[k].image = TRUE,
       !.drawn = Append(@, [clip |-> k, transform |-> feed.transform]),
       !.transform = feed.oldTransform[k],
       !.pc[k] = "done"]
  /\ UNCHANGED <<writerVars, chunks, nAddFrame, lastCall, prevCall>>

\* The error event of the image of clip k: asImage, simpleRender and render
\* reject, and so does Promise.all.
ImageError(k) ==
  /\ feed.phase = "render"
  /\ feed.frame \in {"started", "rejected"}
  /\ feed.pc[k] = "loading"
  /\ feed' = [feed EXCEPT !.pc[k] = "rejected", !.frame = "rejected"]
  /\ UNCHANGED <<writerVars, chunks, nAddFrame, lastCall, prevCall>>

\* Every render has resolved: Promise.all resolves and renderFrame returns
\* the canvas.
RenderFrameReturns ==
  /\ feed.phase = "render"
  /\ feed.frame = "started"
  /\ \A k \in 1..Len(feed.pc) : feed.pc[k] \in {"done", "skipped"}
  /\ feed' = [feed EXCEPT !.frame = "returned"]
  /\ UNCHANGED <<writerVars, chunks, nAddFrame, lastCall, prevCall>>

NextRender ==
  \/ RenderFrameCalled
  \/ \E k \in 1..MaxClips : k <= Len(feed.clips) /\ ImageLoaded(k)
  \/ \E k \in 1..MaxClips : k <= Len(feed.clips) /\ ImageError(k)
  \/ RenderFrameReturns

SpecRender == InitRender /\ [][NextRender]_vars

(***************************************************************************)
(* SpecSequence: one call of simpleRender on an ImageSequenceClip.  Times  *)
(* are whole microseconds.  microsecondsPerClip is the fraction            *)
(* renderLength / resources.length, kept as numerator and denominator; the *)
(* lengths and times of the model are such that the quotient of the code   *)
(* is either exact or away from a whole number by more than 1e-7.  feed    *)
(* holds the clip, the arguments of the call and the place it has reached. *)
(***************************************************************************)
MaxResources == 3

\* properties.renderLength of the clips
RenderLengths == {3, 1000000}

\* The clip-relative times simpleRender is called with.
SequenceTimes ==
  {0 - 1, 0, 1, 2, 3, 4, 333333, 333334, 499999, 500000, 666666, 666667,
   999999, 1000000, 2000000}

\* clamp without its bounds.
clamp_none(num, min, max) == num

\* Math.min(Math.max(num, min), max)
clamp(num, min, max) ==
  LET m == IF num > min THEN num ELSE min
  IN IF m < max THEN m ELSE max

\* ImageSequenceClip.update: renderLength / resources.length
microsecondsPerClip(renderLength, resources) ==
  [num |-> renderLength, den |-> resources]

\* Math.floor(time / q) for the fraction q = num / den, num > 0, den > 0
FloorQuotient(time, q) == (time * q.den) \div q.num

\* The resourceIndex of simpleRender, for a clip with resources.
resourceIndex(clip, time) ==
  clamp(FloorQuotient(time, clip.microsecondsPerClip), 0, clip.resources - 1)

\* new ImageSequenceClip(properties, resources), resources given by their
\* number.
ImageSequenceClip(renderLength, resources) ==
  [renderLength |-> renderLength, resources |-> resources,
   microsecondsPerClip |-> microsecondsPerClip(renderLength, resources)]

InitSequence ==
  /\ \E o \in WriterOptions : WriterIs(WebMWriter(o))
  /\ chunks = <<>>
  /\ nAddFrame = 0
  /\ lastCall = "none"
  /\ prevCall = "none"
  /\ \E l \in RenderLengths, n \in 0..MaxResources, t \in SequenceTimes :
       feed = [phase |-> "sequence", clip |-> ImageSequenceClip(l, n),
               time |-> t, pc |-> "called", index |-> 0 - 1,
               drawn |-> <<>>]

\* simpleRender returns at once for a clip without resources.
SimpleRenderEmpty ==
  /\ feed.phase = "sequence"
  /\ feed.pc = "called"
  /\ feed.clip.resources < 1
  /\ feed' = [feed EXCEPT !.pc = "resolved"]
  /\ UNCHANGED <<writerVars, chunks, nAddFrame, lastCall, prevCall>>

\* simpleRender up to await resource.asImage().
SimpleRenderSelects ==
  /\ feed.phase = "sequence"
  /\ feed.pc = "called"
  /\ ~(feed.clip.resources < 1)
  /\ feed' = [feed EXCEPT !.pc = "awaiting",
                          !.index = resourceIndex(feed.clip, feed.time)]
  /\ UNCHANGED <<writerVars, chunks, nAddFrame, lastCall, prevCall>>

\* asImage resolves: canvas.drawImage.  A resource outside the array is
\* undefined: resource.asImage() throws.
SimpleRenderDraws ==
  /\ feed.phase = "sequence"
  /\ feed.pc = "awaiting"
  /\ feed' = IF feed.index \in 0..(feed.clip.resources - 1)
             THEN [feed EXCEPT !.pc = "resolved",
                               !.drawn = Append(@, feed.index)]
             ELSE [feed EXCEPT !.pc = "threw"]
  /\ UNCHANGED <<writerVars, chunks, nAddFrame, lastCall, prevCall>>

\* asImage rejects (the image does not load): so does simpleRender.
SimpleRenderImageError ==
  /\ feed.phase = "sequence"
  /\ feed.pc = "awaiting"
  /\ feed.index \in 0..(feed.clip.resources - 1)
  /\ feed' = [feed EXCEPT !.pc = "imageError"]
  /\ UNCHANGED <<writerVars, chunks, nAddFrame, lastCall, prevCall>>

NextSequence ==
  \/ SimpleRenderEmpty
  \/ SimpleRenderSelects
  \/ SimpleRenderDraws
  \/ SimpleRenderImageError

SpecSequence == InitSequence /\ [][NextSequence]_vars

(***************************************************************************)
(* SpecLists: the resources and clips of a VideoBackend, and the App's     *)
(* list of resource ids.  A list is the sequence of the ids of its         *)
(* elements; the ids of a list differ.  feed holds the lists, the last     *)
(* call and the lists before it.                                           *)
(***************************************************************************)
\* The ids of the resources and of the clips, and an id of neither.
ResourceIds == {100 + k : k \in 1..MaxResources}
ClipIds == {200 + k : k \in 1..MaxClips}
AbsentId == 999

\* The sequences of different ids, of every length.
IdLists(ids) ==
  UNION {{l \in [1..n -> ids] : \A i, j \in 1..n : l[i] = l[j] => i = j} :
           n \in 0..Cardinality(ids)}

\* Array.prototype.findIndex for the test "id === id": the index from 0 of
\* the first element with that id, or -1.
findIndex(list, id) ==
  IF \E k \in 1..Len(list) : list[k] = id
  THEN (CHOOSE k \in 1..Len(list) :
          /\ list[k] = id
          /\ \A j \in 1..(k - 1) : list[j] # id) - 1
  ELSE 0 - 1

\* Array.prototype.splice(start, deleteCount): a start below 0 counts from
\* the end of the array.
splice(list, start, deleteCount) ==
  LET len == Len(list)
      actualStart == IF start < 0
                     THEN (IF len + start > 0 THEN len + start ELSE 0)
                     ELSE (IF start < len THEN start ELSE len)
      count == clamp(deleteCount, 0, len - actualStart)
  IN SubSeq(list, 1, actualStart) \o SubSeq(list, actualStart + count + 1, len)

removeResourceById(resources, id) ==
  splice(resources, findIndex(resources, id), 1)

removeClipById(clips, id) == splice(clips, findIndex(clips, id), 1)

\* resources.filter((resource) => resource !== id)
filterOut(list, id) == SelectSeq(list, LAMBDA x : x # id)

InitLists ==
  /\ \E o \in WriterOptions : WriterIs(WebMWriter(o))
  /\ chunks = <<>>
  /\ nAddFrame = 0
  /\ lastCall = "none"
  /\ prevCall = "none"
  /\ \E r \in IdLists(ResourceIds), c \in IdLists(ClipIds) :
       feed = [phase |-> "lists", resources |-> r, clips |-> c, shown |-> r,
               call |-> [fn |-> "none", id |-> 0],
               before |-> [resources |-> r, clips |-> c]]

\* The lists after a call fn(id) that leaves resources, clips and shown.
ListsBecome(fn, id, resources, clips, shown) ==
  /\ feed' = [feed EXCEPT
       !.resources = resources, !.clips = clips, !.shown = shown,
       !.call = [fn |-> fn, id |-> id],
       !.before = [resources |-> feed.resources, clips |-> feed.clips]]
  /\ UNCHANGED <<writerVars, chunks, nAddFrame, lastCall, prevCall>>

\* backend.removeResourceById(id)
RemoveResourceById(id) ==
  /\ feed.phase = "lists"
  /\ ListsBecome("removeResourceById", id,
                 removeResourceById(feed.resources, id), feed.clips,
                 feed.shown)

\* backend.removeClipById(id)
RemoveClipById(id) ==
  /\ feed.phase = "lists"
  /\ ListsBecome("removeClipById", id, feed.resources,
                 removeClipById(feed.clips, id), feed.shown)

\* The delete button of the i-th item of ResourcesList, shown when the
\* backend has a resource of its id: removeResource(i), which filters the
\* App's list and calls backend.removeResourceById(i).
DeleteButtonClicked(i) ==
  /\ feed.phase = "lists"
  /\ i \in 0..(Len(feed.shown) - 1)
  /\ findIndex(feed.resources, feed.shown[i + 1]) >= 0
  /\ ListsBecome("removeResourceById", i,
                 removeResourceById(feed.resources, i), feed.clips,
                 filterOut(feed.shown, i))

NextLists ==
  \/ \E id \in ResourceIds \cup {AbsentId} : RemoveResourceById(id)
  \/ \E id \in ClipIds \cup {AbsentId} : RemoveClipById(id)
  \/ \E i \in 0..(MaxResources - 1) : DeleteButtonClicked(i)

SpecLists == InitLists /\ [][NextLists]_vars

(***************************************************************************)
(* SpecCalls: one call of a function of the muxer with an argument of a    *)
(* small set; feed holds the call and, once it has returned, its result.   *)
(***************************************************************************)
MaxTrackNumber == 130

\* The frames given to createSimpleBlockForframe.
BlockFrames ==
  {[frame |-> ChunkData(1, 2), intime |-> Us(1000), type |-> t,
    trackNumber |-> n, timecode |-> 258] :
     n \in 0..MaxTrackNumber, t \in {"key", "delta"}}

\* The numbers given to measureEBMLVarInt: those about the largest value of
\* each width.
VarInts ==
  {<<0, 0>>, <<0, 1>>}
  \cup {<<0, Pow2(7 * w) - d>> : w \in 1..3, d \in 0..3}
  \cup {<<h, Pow2(28) - d>> : h \in {0, 127}, d \in 1..3}
  \cup {<<1, 0>>, <<1, 1>>, <<126, 5>>, <<128, 0>>, <<128, 1>>, <<300, 7>>}
  \cup {<<8, 0>>, <<9, 11259375>>, <<15, Pow2(28) - 1>>, <<16, 0>>,
        <<100, 123456789>>}

\* The widths given to writeEBMLVarIntWidth.
VarIntWidths == 0..6

\* The numbers given to measureUnsignedInt and writeUnsignedIntBE: those
\* about the powers of 256, up to 2^40 and beyond.
UnsignedInts ==
  {<<0, 0>>, <<0, 1>>, <<0, 1193046>>, <<9, 11259375>>, <<5000, 77>>}
  \cup {<<0, Pow2(8 * w) - d>> : w \in 1..3, d \in 0..2}
  \cup {<<15, Pow2(28) - 1>>, <<16, 0>>, <<16, 1>>, <<4095, Pow2(28) - 1>>,
        <<4096, 0>>, <<4096, 1>>}

\* The trees given to writeEBML are made from a shape.  The leaves: a
\* number, a string, 130 bytes.
EBMLLeaf(k) ==
  CASE k = 1 -> Element(\hd7, "number", 1)
    [] k = 2 -> Element(\h86, "string", Str_VP9)
    [] OTHER -> Element(\ha1, "bytes", Zeros(130))

\* No node for 0, leaf k for k > 0.
EBMLLeaves(k) == IF k = 0 THEN <<>> ELSE <<EBMLLeaf(k)>>

\* A leaf of 16400 bytes: a container that holds it needs more than two
\* bytes of a VINT for its size.
EBMLLargeLeaf == Element(\ha3, "bytes", Zeros(16400))

\* A container of at most two leaves, of known or unknown size.
EBMLLevel1(sh) ==
  SizedElement(\hae, "children", EBMLLeaves(sh.a) \o EBMLLeaves(sh.b),
               IF sh.unbounded THEN 0 - 1 ELSE 0)

\* A container of a container and a leaf, or one of unknown size of a
\* container.
EBMLLevel2(sh) ==
  IF sh.pair
  THEN Element(\h1654ae6b, "children", <<EBMLLevel1(sh), EBMLLeaf(sh.leaf)>>)
  ELSE SizedElement(\h18538067, "children", <<EBMLLevel1(sh)>>, 0 - 1)

EBMLLevel3(sh) ==
  Element(\h1a45dfa3, "children", <<EBMLLargeLeaf, EBMLLevel2(sh)>>)

EBMLTree(sh) ==
  CASE sh.level = 1 -> EBMLLevel1(sh)
    [] sh.level = 2 -> EBMLLevel2(sh)
    [] OTHER -> EBMLLevel3(sh)

EBMLShapes ==
  [level : 1..3, a : 0..3, b : 0..3, unbounded : BOOLEAN, pair : BOOLEAN,
   leaf : 1..3]

\* The capacity of the stream writeEBML is called on, and the file offsets
\* of the stream.
EBMLBufferLength == 20000

BufferFileOffsets == {0, 1000}

\* What a call on a new stream has left: whether it threw, the cursor and
\* the bytes written.
StreamAfter(s) == [threw |-> s.err, pos |-> s.pos, bytes |-> s.data]

InitCalls ==
  /\ \E o \in WriterOptions : WriterIs(WebMWriter(o))
  /\ chunks = <<>>
  /\ nAddFrame = 0
  /\ lastCall = "none"
  /\ prevCall = "none"
  /\ \/ \E f \in BlockFrames :
          feed = [phase |-> "call", fn |-> "createSimpleBlockForframe",
                  arg |-> f]
     \/ \E v \in VarInts :
          feed = [phase |-> "call", fn |-> "measureEBMLVarInt", arg |-> v]
     \/ \E v \in VarInts :
          feed = [phase |-> "call", fn |-> "writeEBMLVarInt", arg |-> v]
     \/ \E v \in VarInts, w \in VarIntWidths :
          feed = [phase |-> "call", fn |-> "writeEBMLVarIntWidth",
                  arg |-> [i |-> v, width |-> w]]
     \/ \E sh \in EBMLShapes, o \in BufferFileOffsets :
          feed = [phase |-> "call", fn |-> "writeEBML",
                  arg |-> [ebml |-> EBMLTree(sh), bufferFileOffset |-> o]]
     \/ \E v \in UnsignedInts :
          feed = [phase |-> "call", fn |-> "measureUnsignedInt", arg |-> v]
     \/ \E v \in UnsignedInts :
          feed = [phase |-> "call", fn |-> "writeUnsignedIntBE", arg |-> v]

CallCreateSimpleBlockForframe ==
  /\ feed.phase = "call"
  /\ feed.fn = "createSimpleBlockForframe"
  /\ feed' = [phase |-> "returned", fn |-> feed.fn, arg |-> feed.arg,
              result |-> createSimpleBlockForframe(feed.arg)]
  /\ UNCHANGED <<writerVars, chunks, nAddFrame, lastCall, prevCall>>

CallMeasureEBMLVarInt ==
  /\ feed.phase = "call"
  /\ feed.fn = "measureEBMLVarInt"
  /\ feed' = [phase |-> "returned", fn |-> feed.fn, arg |-> feed.arg,
              result |-> measureEBMLVarIntWide(feed.arg)]
  /\ UNCHANGED <<writerVars, chunks, nAddFrame, lastCall, prevCall>>

\* stream.writeEBMLVarInt(i) on a new stream.
CallWriteEBMLVarInt ==
  /\ feed.phase = "call"
  /\ feed.fn = "writeEBMLVarInt"
  /\ feed' = [phase |-> "returned", fn |-> feed.fn, arg |-> feed.arg,
              result |-> StreamAfter(
                writeEBMLVarIntWide(ArrayBufferDataStream(8), feed.arg))]
  /\ UNCHANGED <<writerVars, chunks, nAddFrame, lastCall, prevCall>>

\* stream.writeEBMLVarIntWidth(i, width) on a new stream.
CallWriteEBMLVarIntWidth ==
  /\ feed.phase = "call"
  /\ feed.fn = "writeEBMLVarIntWidth"
  /\ feed' = [phase |-> "returned", fn |-> feed.fn, arg |-> feed.arg,
              result |-> StreamAfter(
                writeEBMLVarIntWidthWide(ArrayBufferDataStream(8),
                                         feed.arg.i, feed.arg.width))]
  /\ UNCHANGED <<writerVars, chunks, nAddFrame, lastCall, prevCall>>

CallMeasureUnsignedInt ==
  /\ feed.phase = "call"
  /\ feed.fn = "measureUnsignedInt"
  /\ feed' = [phase |-> "returned", fn |-> feed.fn, arg |-> feed.arg,
              result |-> measureUnsignedIntWide(feed.arg)]
  /\ UNCHANGED <<writerVars, chunks, nAddFrame, lastCall, prevCall>>

\* stream.writeUnsignedIntBE(u, stream.measureUnsignedInt(u)) on a new
\* stream.
CallWriteUnsignedIntBE ==
  /\ feed.phase = "call"
  /\ feed.fn = "writeUnsignedIntBE"
  /\ feed' = [phase |-> "returned", fn |-> feed.fn, arg |-> feed.arg,
              result |-> StreamAfter(
                writeUnsignedIntBEWide(ArrayBufferDataStream(8), feed.arg,
                                       measureUnsignedIntWide(feed.arg)))]
  /\ UNCHANGED <<writerVars, chunks, nAddFrame, lastCall, prevCall>>

\* writeEBML(buffer, bufferFileOffset, ebml) on a new stream.
CallWriteEBML ==
  /\ feed.phase = "call"
  /\ feed.fn = "writeEBML"
  /\ feed' = [phase |-> "returned", fn |-> feed.fn, arg |-> feed.arg,
              result |-> StreamAfter(
                writeEBML(ArrayBufferDataStream(EBMLBufferLength),
                          feed.arg.bufferFileOffset, feed.arg.ebml).buffer)]
  /\ UNCHANGED <<writerVars, chunks, nAddFrame, lastCall, prevCall>>

NextCalls ==
  \/ CallCreateSimpleBlockForframe
  \/ CallWriteEBML
  \/ CallMeasureEBMLVarInt
  \/ CallWriteEBMLVarInt
  \/ CallWriteEBMLVarIntWidth
  \/ CallMeasureUnsignedInt
  \/ CallWriteUnsignedIntBE

SpecCalls == InitCalls /\ [][NextCalls]_vars

(***************************************************************************)
(* Reading a file back: EBML element ids and sizes as a Matroska parser    *)
(* reads them.  Offsets count from 0.                                      *)
(***************************************************************************)
File == blobBuffer.data

ByteAt(file, p) == IF p >= 0 /\ p < Len(file) THEN file[p + 1] ELSE 0

\* The big-endian value of the n bytes at p.
RECURSIVE ReadUInt(_, _, _)
ReadUInt(file, p, n) ==
  IF n <= 0 THEN 0
  ELSE 256 * ReadUInt(file, p, n - 1) + ByteAt(file, p + n - 1)

\* The width a leading byte announces: 1 + its number of leading zero bits
\* (0 for the byte 0).
LeadWidth(b) ==
  IF b = 0 THEN 0
  ELSE CHOOSE k \in 1..8 : Pow2(8 - k) <= b /\ b < Pow2(9 - k)

\* An element id keeps its marker bit.
ReadId(file, p) == ReadUInt(file, p, LeadWidth(ByteAt(file, p)))

\* A size loses its marker bit; all ones in one byte is "unknown" (-1).
ReadSize(file, p) ==
  LET w == LeadWidth(ByteAt(file, p))
      raw == ReadUInt(file, p, w)
  IN IF w = 1 /\ raw = 255 THEN 0 - 1 ELSE raw - Pow2(7 * w)

\* The element at p: its id, the offsets of its first byte and of its data,
\* its size, and the offset after it (the end of the file for an element
\* of unknown size).
ReadElement(file, p) ==
  LET idw  == LeadWidth(ByteAt(file, p))
      szw  == LeadWidth(ByteAt(file, p + idw))
      size == ReadSize(file, p + idw)
  IN [id |-> ReadId(file, p), pos |-> p, sizeWidth |-> szw,
      dataPos |-> p + idw + szw, size |-> size,
      end |-> IF size < 0 THEN Len(file) ELSE p + idw + szw + size]

\* The elements that follow one another from p up to end.
RECURSIVE Elements(_, _, _, _)
Elements(file, p, end, acc) ==
  IF p >= end \/ ByteAt(file, p) = 0 \/ Len(acc) < 0 THEN acc
  ELSE LET e == ReadElement(file, p)
       IN Elements(file, e.end, end, Append(acc, e))

ChildrenOf(file, e) == Elements(file, e.dataPos, e.end, <<>>)

WithId(elements, id) == SelectSeq(elements, LAMBDA e : e.id = id)

UIntOf(file, e) == ReadUInt(file, e.dataPos, e.size)

BytesOf(file, e) == SubSeq(file, e.dataPos + 1, e.end)

TopLevel(file) == Elements(file, 0, Len(file), <<>>)

\* The Segment elements of the file (none before the header is written).
Segments(file) == WithId(TopLevel(file), \h18538067)

\* The children of the Segment.
SegmentChildren(file) ==
  LET seg == Segments(file)
  IN IF seg = <<>> THEN <<>> ELSE ChildrenOf(file, seg[1])

SegmentDataPos(file) == Segments(file)[1].dataPos

Clusters(file) == WithId(SegmentChildren(file), \h1f43b675)

CuesElements(file) == WithId(SegmentChildren(file), \h1c53bb6b)

\* The Timecode of a Cluster.
ClusterTimecode(file, c) == UIntOf(file, WithId(ChildrenOf(file, c), \he7)[1])

\* The SimpleBlocks of a Cluster.
SimpleBlocks(file, c) == WithId(ChildrenOf(file, c), \ha3)

\* The signed 16-bit timecode of a SimpleBlock (after a 1-byte track number)
BlockTimecode(file, b) ==
  LET u == ReadUInt(file, b.dataPos + 1, 2)
  IN IF u >= Pow2(15) THEN u - Pow2(16) ELSE u

\* The frame bytes of a SimpleBlock.
BlockFrame(file, b) == SubSeq(file, b.dataPos + 5, b.end)

\* A cue point of the file as <<CueTime, CueTrack, CueClusterPosition>>.
FileCue(file, cp) ==
  LET kids == ChildrenOf(file, cp)
      pos  == ChildrenOf(file, WithId(kids, \hb7)[1])
  IN <<UIntOf(file, WithId(kids, \hb3)[1]),
       UIntOf(file, WithId(pos, \hf7)[1]),
       UIntOf(file, WithId(pos, \hf1)[1])>>

\* The cue points of a Cues element of the file.
FileCues(file, cuesElement) ==
  LET cps == WithId(ChildrenOf(file, cuesElement), \hbb)
  IN [k \in 1..Len(cps) |-> FileCue(file, cps[k])]

\* An entry of the cue list as <<CueTime, CueTrack, CueClusterPosition>>.
CueEntry(cue) ==
  <<cue.data[1].data, cue.data[2].data[1].data, cue.data[2].data[2].data>>

CueEntries(cueList) == [k \in 1..Len(cueList) |-> CueEntry(cueList[k])]

\* The time in ms times TicksPerMs of a chunk after the chunk `first`.
TimeAfter(chunk, first) == chunk.timestamp - first.timestamp

(***************************************************************************)
(* The claims.                                                             *)
(***************************************************************************)
\* The chunk a step passes to addFrameToCluster, when it passes one.
ChunkAdded == Len(chunks') = Len(chunks) + 1

\* clusterDuration as addFrameToCluster computes it for that chunk, before
\* it compares it with the limit.
DurationReached ==
  LET chunk == chunks'[Len(chunks')]
      time  == IF firstTimestampEver THEN 0
               ELSE chunk.timestamp - earliestTimestamp
      start == IF clusterDuration = 0 THEN time ELSE clusterStartTime
  IN MathRound(time - start) + 1

\* C1: between calls clusterDuration is below 5000 ms; an addFrame that
\* brings it to 5000 or more writes the buffered frames as one cluster and
\* leaves clusterDuration 0 and the buffer empty, and any other addFrame of
\* a chunk leaves the duration it reached and the frame in the buffer.
C1_ClusterDurationBelowLimit ==
  /\ [](clusterDuration < MAX_CLUSTER_DURATION_MSEC)
  /\ [][ChunkAdded =>
          IF DurationReached >= MAX_CLUSTER_DURATION_MSEC
          THEN /\ clusterDuration' = 0
               /\ clusterFrameBuffer' = <<>>
               /\ Len(Clusters(blobBuffer'.data)) = Len(Clusters(File)) + 1
          ELSE /\ clusterDuration' = DurationReached
               /\ Len(clusterFrameBuffer') = Len(clusterFrameBuffer) + 1
               /\ Len(Clusters(blobBuffer'.data)) = Len(Clusters(File))]_vars

\* An addFrame has reached the limit, 5000 ms after the first chunk, and
\* has flushed.
C1_Witness ==
  /\ lastCall = "addFrame"
  /\ Len(chunks) >= 2
  /\ lastTimeCode >= MAX_CLUSTER_DURATION_MSEC * TicksPerMs
  /\ clusterDuration = 0
  /\ clusterFrameBuffer = <<>>
  /\ ~firstCueWritten
  /\ Len(Clusters(File)) = 1

\* The cue list holds, for each cluster of the file in order, the offset of
\* the cluster's id from the Segment's data and the cluster's Timecode (a
\* start time below 0, of a chunk older than the first, is not an unsigned
\* integer: the Timecode field then holds its low bits only).
CuesMatchClusters ==
  LET cl == Clusters(File)
  IN /\ Len(cues) = Len(cl)
     /\ \A k \in 1..Len(cl) :
          /\ CueEntry(cues[k])[2] = DEFAULT_TRACK_NUMBER
          /\ CueEntry(cues[k])[3] = cl[k].pos - SegmentDataPos(File)
          /\ CueEntry(cues[k])[1] >= 0 =>
               CueEntry(cues[k])[1] = ClusterTimecode(File, cl[k])

\* C2: a flush of a non-empty buffer writes one Cluster and appends one cue,
\* a flush of an empty buffer writes none and appends none; the k-th cue
\* holds the k-th cluster's rounded start time and the segment-relative
\* offset of its id; the entries of the cue list are never changed or
\* removed.
C2_OneCuePerCluster ==
  /\ []CuesMatchClusters
  /\ [][/\ Len(cues') \in {Len(cues), Len(cues) + 1}
        /\ SubSeq(CueEntries(cues'), 1, Len(cues)) = CueEntries(cues)
        /\ Len(Clusters(blobBuffer'.data)) - Len(Clusters(File))
             = Len(cues') - Len(cues)
        /\ Len(cues') > Len(cues) =>
             CueEntry(cues'[Len(cues')])[1] = MathRound(clusterStartTime')
        /\ lastCall' = "complete" =>
             Len(cues') = Len(cues)
                          + (IF clusterFrameBuffer = <<>> THEN 0 ELSE 1)]_vars

\* Two clusters and two cues; the second cluster starts 5002.5 ms after the
\* first chunk, the second cue holds 5003 and the offset of the cluster.
C2_Witness ==
  /\ lastCall = "complete"
  /\ Len(chunks) = 3
  /\ TimeAfter(chunks[2], chunks[1]) = 5000 * TicksPerMs
  /\ TimeAfter(chunks[3], chunks[1]) = 5002 * TicksPerMs + TicksPerMs \div 2
  /\ Len(cues) = 2
  /\ Len(Clusters(File)) = 2
  /\ CueEntry(cues[2])[1] = 5003
  /\ CueEntry(cues[2])[3] = Clusters(File)[2].pos - SegmentDataPos(File)

\* The frames of the SimpleBlocks of clusters[k..], in the order of the file.
RECURSIVE FramesFrom(_, _, _)
FramesFrom(file, clusters, k) ==
  IF k > Len(clusters) THEN <<>>
  ELSE LET bl == SimpleBlocks(file, clusters[k])
       IN [j \in 1..Len(bl) |-> BlockFrame(file, bl[j])]
          \o FramesFrom(file, clusters, k + 1)

WrittenFrames(file) == FramesFrom(file, Clusters(file), 1)

\* C3: for chunks evenly spaced in time from timestamp 0, every frame of
\* every cluster written to the file has a cluster-relative timecode below
\* 5000.
C3_TimecodesBelowLimit ==
  feed.options.start = 0 =>
    \A c \in {Clusters(File)[k] : k \in 1..Len(Clusters(File))} :
      \A b \in {SimpleBlocks(File, c)[j] : j \in 1..Len(SimpleBlocks(File, c))} :
        BlockTimecode(File, b) < MAX_CLUSTER_DURATION_MSEC

\* C4: the chunks of a 30 fps export followed by complete() give 1 cluster
\* and 1 cue for 30 frames, 2 clusters and 2 cues for 180 frames.
C4_ClustersOfExport ==
  (feed.phase = "done" /\ feed.options.fps = 30) =>
    LET n  == totalFrames(feed.options)
        cu == CuesElements(File)
        expected == IF n = 30 THEN 1 ELSE 2
    IN /\ n \in {30, 180}
       /\ Len(chunks) = n
       /\ Len(Clusters(File)) = expected
       /\ Len(cues) = expected
       /\ Len(cu) = 1
       /\ Len(FileCues(File, cu[1])) = expected

\* The 180 frames of the 6 s export are in the file, in two clusters.
C4_Witness ==
  /\ feed.phase = "done"
  /\ feed.options.fps = 30
  /\ totalFrames(feed.options) = 180
  /\ Len(WrittenFrames(File)) = 180
  /\ Len(Clusters(File)) = 2

\* C5: the frames of the SimpleBlocks of the file, followed by those still
\* in the buffer, are the chunks passed to addFrame, each once and in the
\* order of arrival; after complete() the buffer is empty.
C5_ChunksWrittenOnceInOrder ==
  /\ WrittenFrames(File)
       \o [k \in 1..Len(clusterFrameBuffer) |-> clusterFrameBuffer[k].frame]
     = [k \in 1..Len(chunks) |-> chunks[k].data]
  /\ lastCall = "complete" => clusterFrameBuffer = <<>>

\* Three chunks are in the file after complete(), in two clusters.
C5_Witness ==
  /\ lastCall = "complete"
  /\ Len(chunks) = 3
  /\ Len(Clusters(File)) = 2
  /\ WrittenFrames(File) = <<chunks[1].data, chunks[2].data, chunks[3].data>>

\* C6: the header (EBML header, unbounded Segment, SeekHead, SegmentInfo,
\* Tracks) is in the file from the first call on, addFrame or complete(),
\* once, and before every Cluster and Cues: nothing else is in a Segment.
C6_HeaderWrittenOnce ==
  IF lastCall = "none" THEN File = <<>> /\ ~writtenHeader
  ELSE LET top  == TopLevel(File)
           kids == SegmentChildren(File)
       IN /\ writtenHeader
          /\ Len(top) = 2
          /\ top[1].id = \h1a45dfa3 /\ top[1].pos = 0
          /\ top[2].id = \h18538067 /\ top[2].size = 0 - 1
          /\ Len(kids) >= 3
          /\ kids[1].id = \h114d9b74
          /\ kids[2].id = \h1549a966
          /\ kids[3].id = \h1654ae6b
          /\ \A k \in 4..Len(kids) : kids[k].id \in {\h1f43b675, \h1c53bb6b}

\* Three addFrame calls and a complete(): one header, then a cluster and
\* the cues.
C6_Witness ==
  /\ lastCall = "complete"
  /\ nAddFrame = 3
  /\ Len(SegmentChildren(File)) >= 5
  /\ SegmentChildren(File)[4].id = \h1f43b675

\* C7: once the Cues element is in the file it is the last element of the
\* Segment (no Cluster follows it) and it holds a cue point for every
\* cluster of the file.
C7_CuesTrail ==
  LET kids == SegmentChildren(File)
      cu   == CuesElements(File)
  IN Len(cu) >= 1 =>
       /\ kids[Len(kids)].id = \h1c53bb6b
       /\ Len(FileCues(File, cu[1])) = Len(Clusters(File))

\* C8: the Cues element is written at most once, and a complete() that
\* follows a complete() leaves the bytes and the length of the file as they
\* are.
C8_SecondCompleteNoOp ==
  /\ [](Len(CuesElements(File)) <= 1)
  /\ [][(lastCall = "complete" /\ lastCall' = "complete") =>
          /\ blobBuffer'.data = blobBuffer.data
          /\ blobBuffer'.length = blobBuffer.length]_vars

\* complete() has been called twice in a row on a file with a cluster.
C8_Witness ==
  /\ lastCall = "complete"
  /\ prevCall = "complete"
  /\ Len(Clusters(File)) >= 1
  /\ Len(CuesElements(File)) = 1

\* The Seek entries of the SeekHead of the file, each as
\* <<SeekID, size of SeekPosition, SeekPosition>>.
SeekEntries(file) ==
  LET seeks == WithId(ChildrenOf(file, SegmentChildren(file)[1]), \h4dbb)
  IN [k \in 1..Len(seeks) |->
        LET kids == ChildrenOf(file, seeks[k])
        IN <<UIntOf(file, WithId(kids, \h53ab)[1]),
             WithId(kids, \h53ac)[1].size,
             UIntOf(file, WithId(kids, \h53ac)[1])>>]

\* C9: after complete() the SeekHead has three entries, for SegmentInfo,
\* Tracks and Cues; each SeekPosition is 5 bytes and holds the offset of the
\* element of that id from the Segment's data.
C9_SeekPositions ==
  lastCall = "complete" =>
    LET kids  == SegmentChildren(File)
        seeks == SeekEntries(File)
    IN /\ {seeks[k][1] : k \in 1..Len(seeks)}
            = {\h1549a966, \h1654ae6b, \h1c53bb6b}
       /\ Len(seeks) = 3
       /\ \A k \in 1..Len(seeks) :
            /\ seeks[k][2] = 5
            /\ WithId(kids, seeks[k][1]) # <<>>
            /\ seeks[k][3] = WithId(kids, seeks[k][1])[1].pos
                             - SegmentDataPos(File)

\* After complete() on a file with two clusters the SeekHead points to the
\* Cues behind them.
C9_Witness ==
  /\ lastCall = "complete"
  /\ Len(Clusters(File)) = 2
  /\ \E k \in 1..Len(SeekEntries(File)) :
       /\ SeekEntries(File)[k][1] = \h1c53bb6b
       /\ SeekEntries(File)[k][3]
            = CuesElements(File)[1].pos - SegmentDataPos(File)
       /\ SeekEntries(File)[k][3] > Clusters(File)[2].pos - SegmentDataPos(File)

\* The Duration element of the file.
DurationElement(file) ==
  WithId(ChildrenOf(file, WithId(SegmentChildren(file), \h1549a966)[1]),
         \h4489)[1]

\* C10: after complete() the 8 bytes of Duration are the float64 of the time
\* in ms of the last chunk added after the first chunk of the session, and
\* of 0 when no chunk was added.
C10_Duration ==
  lastCall = "complete" =>
    /\ DurationElement(File).size = 8
    /\ BytesOf(File, DurationElement(File))
         = IF chunks = <<>> THEN Zeros(8)
           ELSE FloatBytes(TimeAfter(chunks[Len(chunks)], chunks[1]),
                           TicksPerMs, 11, 52)

\* The state after a call of fn has returned.
Returned(fn) == feed.phase = "returned" /\ feed.fn = fn

\* C19: createSimpleBlockForframe throws and makes no block when the frame's
\* trackNumber is outside 1..126, and makes a SimpleBlock for every
\* trackNumber in 1..126.
C19_TrackNumberValidated ==
  Returned("createSimpleBlockForframe") =>
    IF feed.arg.trackNumber \in 1..126
    THEN /\ ~feed.result.threw
         /\ feed.result.block.id = \ha3
         /\ feed.result.block.data[1].data[1] = 128 + feed.arg.trackNumber
         /\ feed.result.block.data[2].data = feed.arg.frame
    ELSE feed.result.threw /\ feed.result.block = "none"

\* Track 126 has given a block and, in another call, track 127 has thrown.
C19_Witness ==
  /\ Returned("createSimpleBlockForframe")
  /\ feed.arg.trackNumber = 126
  /\ ~feed.result.threw
  /\ feed.result.block.data[1].data = <<254, 1, 2, 0>>

\* The largest value of a VINT of w bytes, 2^(7w) - 2, as <<hi, lo>>.
VintMax(w) ==
  IF 7 * w < 28 THEN <<0, Pow2(7 * w) - 2>>
  ELSE <<Pow2(7 * w - 28) - 1, Pow2(28) - 2>>

\* C20: measureEBMLVarInt(v) is the smallest width w in 1..5 with
\* v <= 2^(7w) - 2, and the method throws when there is none.
C20_SmallestWidth ==
  Returned("measureEBMLVarInt") =>
    LET fit == {w \in 1..5 : ~WideLess(VintMax(w), feed.arg)}
    IN IF fit = {} THEN feed.result = 0
       ELSE feed.result \in fit /\ \A w \in fit : feed.result <= w

\* 127, the reserved value of one byte, is given two bytes.
C20_Witness ==
  /\ Returned("measureEBMLVarInt")
  /\ feed.arg = <<0, 127>>
  /\ feed.result = 2

Exporting == feed.phase = "export"

\* C11: encoder.encode is called only while encodeQueueSize is at most 30,
\* and the frames submitted and not yet taken off the queue are never more
\* than 31, however the dequeue events fall between the steps of the loop.
C11_QueueBounded ==
  /\ [](Exporting => feed.encodeQueueSize <= 31)
  /\ [][(Exporting /\ Len(feed'.submitted) > Len(feed.submitted)) =>
          feed.encodeQueueSize <= 30]_vars

\* A frame has been encoded after the loop waited for a dequeue event, and
\* the queue holds 31 frames again.
C11_Witness ==
  /\ Exporting
  /\ feed.pc = "render"
  /\ feed.waited
  /\ feed.encodeQueueSize = 31

\* C12: complete() is invoked only after every frame submitted to the
\* encoder has been passed to addFrame, and no addFrame follows it.
C12_CompleteAfterAllDelivered ==
  (Exporting /\ feed.completeInvoked) =>
    /\ feed.deliveredAtComplete = feed.submittedAtComplete
    /\ Len(chunks) = feed.deliveredAtComplete

\* C13: once renderFrame has failed or the encoder has reported an error, no
\* further frame is submitted, the muxer is not finalized, and the call of
\* renderToWritableStream does not end as fulfilled.
C13_FailureAborts ==
  (Exporting /\ feed.failure # "none") =>
    /\ Len(feed.submitted) = feed.submittedAtFailure
    /\ ~feed.completeInvoked
    /\ ~blobBuffer.completed
    /\ feed.pc # "done"

\* C14: the loop submits one frame for each index i of 0..totalFrames-1, in
\* this order, frame i with the timestamp start + i * length / totalFrames,
\* each timestamp above the one before.
C14_OneFramePerIndex ==
  Exporting =>
    LET n   == totalFrames(feed.options)
        sub == feed.submitted
    IN /\ Len(sub) = feed.frameIndex
       /\ Len(sub) <= n
       /\ feed.pc \in {"flush", "done"} => Len(sub) = n
       /\ \A k \in 1..Len(sub) :
            sub[k].timestamp * n
              = Us(feed.options.start) * n + (k - 1) * Us(feed.options.length)
       /\ \A k \in 2..Len(sub) : sub[k - 1].timestamp < sub[k].timestamp

\* The export of 3 frames from 0.5 s has ended: the last frame was submitted
\* with timestamp 1.5 s.
C14_Witness ==
  /\ Exporting
  /\ feed.pc = "done"
  /\ feed.options.start = 500000
  /\ Len(feed.submitted) = 3
  /\ feed.submitted[3].timestamp = Us(1500000)

\* C15: frame i is submitted with keyFrame set exactly when i is a multiple
\* of 150, whether or not the loop has waited for the encoder.
C15_KeyFrameCadence ==
  Exporting =>
    \A k \in 1..Len(feed.submitted) :
      feed.submitted[k].keyFrame <=> ((k - 1) % 150 = 0)

\* Frame 150 has just been submitted as a key frame, after a wait.
C15_Witness ==
  /\ Exporting
  /\ feed.frameIndex = 151
  /\ feed.waited
  /\ feed.submitted[151].keyFrame
  /\ ~feed.submitted[150].keyFrame

\* The steps after a failure, apart from the finalization: no frame is
\* submitted and the call does not end as fulfilled.
FailureStopsLoop ==
  (Exporting /\ feed.failure # "none") =>
    /\ Len(feed.submitted) = feed.submittedAtFailure
    /\ feed.pc # "done"

\* complete() on the way without a failure.
CompleteOfFinishedExport ==
  (Exporting /\ feed.completeInvoked /\ feed.failure = "none") =>
    /\ feed.deliveredAtComplete = feed.submittedAtComplete
    /\ Len(chunks) = feed.deliveredAtComplete

\* A failure of renderFrame leaves the muxer as it is.
RenderFailureNotFinalized ==
  (Exporting /\ feed.failure = "render") =>
    ~feed.completeInvoked /\ ~blobBuffer.completed

Rendering == feed.phase = "render"

\* C16: the drawImage calls of one renderFrame are made in the order of the
\* clip list, whatever the order of the load events.
C16_DrawsInClipOrder ==
  Rendering =>
    \A i, j \in 1..Len(feed.drawn) :
      i < j => feed.drawn[i].clip < feed.drawn[j].clip

\* C17: each clip is drawn under the transform of the canvas before the
\* frame combined with the transform of that clip alone.
C17_DrawUnderOwnTransform ==
  Rendering =>
    \A i \in 1..Len(feed.drawn) :
      feed.drawn[i].transform
        = renderTransform(IdentityTransform, feed.clips[feed.drawn[i].clip])

\* C18: when renderFrame returns, the transform of the canvas is the one it
\* had before the first clip was rendered.
C18_TransformRestored ==
  (Rendering /\ feed.frame = "returned") =>
    feed.transform = IdentityTransform

\* The clips of the list that are on screen at RenderTime.
ActiveClips == {k \in 1..Len(feed.clips) : needsRender(feed.clips[k], RenderTime)}

\* With one clip on screen the draw and the transform are as stated.
OneActiveClipRendered ==
  (Rendering /\ Cardinality(ActiveClips) <= 1) =>
    /\ C16_DrawsInClipOrder
    /\ C17_DrawUnderOwnTransform
    /\ C18_TransformRestored

\* A decoder of EBML VINTs: the width is 1 + the number of leading zero bits
\* of the first byte; the value is what is left of the first byte after its
\* marker bit, followed by the other bytes, as <<hi, lo>>.
VintWidth(bytes) == LeadWidth(bytes[1])

VintValue(bytes) ==
  LET w    == VintWidth(bytes)
      lead == bytes[1] - Pow2(8 - w)
  IN IF w = 5
     THEN <<lead * 16 + bytes[2] \div 16,
            (bytes[2] % 16) * Pow2(24) + bytes[3] * Pow2(16)
            + bytes[4] * Pow2(8) + bytes[5]>>
     ELSE <<0, lead * Pow2(8 * (w - 1))
               + ReadUInt(SubSeq(bytes, 2, w), 0, w - 1)>>

\* C21: for every value measureEBMLVarInt accepts, writeEBMLVarIntWidth with
\* the measured width writes that many bytes, and decoding them as a VINT
\* gives the width and the value back.
C21_VintRoundTrip ==
  (Returned("writeEBMLVarInt") /\ measureEBMLVarIntWide(feed.arg) # 0) =>
    /\ ~feed.result.threw
    /\ feed.result.pos = measureEBMLVarIntWide(feed.arg)
    /\ Len(feed.result.bytes) = feed.result.pos
    /\ VintWidth(feed.result.bytes) = feed.result.pos
    /\ VintValue(feed.result.bytes) = feed.arg

\* 2^35 - 2, the largest value, has been written on five bytes.
C21_Witness ==
  /\ Returned("writeEBMLVarInt")
  /\ feed.arg = <<127, Pow2(28) - 2>>
  /\ feed.result.bytes = <<15, 255, 255, 255, 254>>

\* The width the value of a call of writeEBMLVarIntWidth requires (0: none).
RequiredWidth == measureEBMLVarIntWide(feed.arg.i)

\* C22 as stated: writeEBMLVarIntWidth throws and writes nothing when the
\* width is not in 1..5 or is smaller than the width the value requires.
C22_ThrowsOnInconsistentWidth ==
  (/\ Returned("writeEBMLVarIntWidth")
   /\ \/ feed.arg.width \notin 1..5
      \/ RequiredWidth = 0
      \/ feed.arg.width < RequiredWidth) =>
    /\ feed.result.threw
    /\ feed.result.pos = 0
    /\ feed.result.bytes = <<>>

\* C22: writeEBMLVarIntWidth throws, writing nothing, exactly when the width
\* is not in 1..5.  With a width in 1..5 it writes that many bytes without a
\* test of the value: they decode to the value when the width is at least
\* the width the value requires.
C22_ThrowsOnBadWidthOnly ==
  Returned("writeEBMLVarIntWidth") =>
    IF feed.arg.width \notin 1..5
    THEN feed.result.threw /\ feed.result.pos = 0 /\ feed.result.bytes = <<>>
    ELSE /\ ~feed.result.threw
         /\ feed.result.pos = feed.arg.width
         /\ Len(feed.result.bytes) = feed.arg.width
         /\ (RequiredWidth # 0 /\ RequiredWidth <= feed.arg.width) =>
              /\ VintWidth(feed.result.bytes) = feed.arg.width
              /\ VintValue(feed.result.bytes) = feed.arg.i

\* 128 has been written with width 1: no error, and one byte that decodes
\* to 0.
C22_Witness ==
  /\ Returned("writeEBMLVarIntWidth")
  /\ feed.arg = [i |-> <<0, 128>>, width |-> 1]
  /\ ~feed.result.threw
  /\ feed.result.bytes = <<128>>

\* The big-endian value of at most five bytes, as <<hi, lo>>.
BigEndianValue(bytes) ==
  LET five == Zeros(5 - Len(bytes)) \o bytes
  IN <<five[1] * 16 + five[2] \div 16,
       (five[2] % 16) * Pow2(24) + five[3] * Pow2(16) + five[4] * Pow2(8)
       + five[5]>>

\* 256^w as <<hi, lo>>, for w in 1..4.
Pow256(w) == IF w = 4 THEN <<16, 0>> ELSE <<0, Pow2(8 * w)>>

\* C23: measureUnsignedInt(x) is the least w of 1..4 with x < 256^w, and 5
\* for x >= 2^32; writeUnsignedIntBE(x, w) with that w writes w bytes whose
\* big-endian value is x.
C23_UnsignedWidthAndBytes ==
  /\ Returned("measureUnsignedInt") =>
       LET fit == {w \in 1..4 : WideLess(feed.arg, Pow256(w))}
       IN IF fit = {} THEN feed.result = 5
          ELSE feed.result \in fit /\ \A w \in fit : feed.result <= w
  /\ Returned("writeUnsignedIntBE") =>
       /\ ~feed.result.threw
       /\ feed.result.pos = measureUnsignedIntWide(feed.arg)
       /\ Len(feed.result.bytes) = feed.result.pos
       /\ BigEndianValue(feed.result.bytes) = feed.arg

\* The same for the numbers below 2^40.
UnsignedBelow2p40 ==
  (Returned("writeUnsignedIntBE") /\ feed.arg[1] < 4096) =>
    /\ ~feed.result.threw
    /\ feed.result.pos = measureUnsignedIntWide(feed.arg)
    /\ Len(feed.result.bytes) = feed.result.pos
    /\ BigEndianValue(feed.result.bytes) = feed.arg

\* The number of bytes of an element id.
IdLength(id) ==
  IF id < 256 THEN 1 ELSE IF id < 65536 THEN 2
  ELSE IF id < 16777216 THEN 3 ELSE 4

\* The number of bytes of the smallest VINT that holds n.
VintLength(n) == IF n <= 126 THEN 1 ELSE IF n <= 16382 THEN 2 ELSE 3

\* The number of bytes of the data of a leaf.
LeafDataLength(e) ==
  CASE e.kind = "number" -> IdLength(e.data)
    [] e.kind = "float64" -> 8
    [] e.kind = "float32" -> 4
    [] OTHER -> Len(e.data)

RECURSIVE EncodedLength(_)
RECURSIVE EncodedLengths(_, _)
\* The number of bytes an EBML node occupies in a file, by the layout of
\* EBML: id, size field, data.
EncodedLength(e) ==
  CASE e.kind = "raw" -> Len(e.data)
    [] e.kind = "children" ->
       IdLength(e.id) + (IF e.size = 0 - 1 THEN 1 ELSE 4)
       + EncodedLengths(e.data, 1)
    [] OTHER ->
       IdLength(e.id) + VintLength(LeafDataLength(e)) + LeafDataLength(e)

\* The bytes of the nodes kids[k..].
EncodedLengths(kids, k) ==
  IF k > Len(kids) THEN 0
  ELSE EncodedLength(kids[k]) + EncodedLengths(kids, k + 1)

RECURSIVE ContainerSizesMatch(_, _, _)
RECURSIVE ContainerSizesMatchFrom(_, _, _, _)
\* In bytes, where node e starts at pos: every container of known size, e
\* or below it, has after its id a VINT of 4 bytes whose value is the number
\* of bytes of its children.
ContainerSizesMatch(bytes, e, pos) ==
  IF e.kind # "children" THEN TRUE
  ELSE LET sizePos == pos + IdLength(e.id)
           field   == SubSeq(bytes, sizePos + 1, sizePos + 4)
       IN IF e.size = 0 - 1
          THEN ContainerSizesMatchFrom(bytes, e.data, 1, sizePos + 1)
          ELSE /\ VintWidth(field) = 4
               /\ VintValue(field) = <<0, EncodedLengths(e.data, 1)>>
               /\ ContainerSizesMatchFrom(bytes, e.data, 1, sizePos + 4)

ContainerSizesMatchFrom(bytes, kids, k, pos) ==
  \/ k > Len(kids)
  \/ /\ ContainerSizesMatch(bytes, kids[k], pos)
     /\ ContainerSizesMatchFrom(bytes, kids, k + 1,
                                pos + EncodedLength(kids[k]))

ShownResource(l, n, t) ==
  IF t < 0 THEN 0
  ELSE IF t >= l THEN n - 1
  ELSE CHOOSE i \in 0..(n - 1) : i * l <= t * n /\ t * n < (i + 1) * l

\* C25: a simpleRender that has run to its end has made exactly one draw,
\* of the resource at index clamp(floor(t / (renderLength / n)), 0, n - 1),
\* an index of 0..n-1; with no resource it has made no draw and has not
\* thrown.  A call ends otherwise only when the image does not load.
C25_SequenceDrawsOneResource ==
  feed.phase = "sequence" =>
    /\ feed.pc # "threw"
    /\ feed.pc = "resolved" =>
         IF feed.clip.resources = 0 THEN feed.drawn = <<>>
         ELSE /\ Len(feed.drawn) = 1
              /\ feed.drawn[1] \in 0..(feed.clip.resources - 1)
              /\ feed.drawn[1] = ShownResource(feed.clip.renderLength,
                                               feed.clip.resources, feed.time)
    /\ feed.pc # "resolved" => feed.drawn = <<>>

\* One third of a second into a clip of one second with three resources: the
\* second resource is drawn.
C25_Witness ==
  /\ feed.phase = "sequence"
  /\ feed.pc = "resolved"
  /\ feed.clip.resources = 3
  /\ feed.clip.renderLength = 1000000
  /\ feed.time = 333334
  /\ feed.drawn = <<1>>

\* A clip without resources has been rendered.
SequenceEmptyRendered ==
  /\ feed.phase = "sequence"
  /\ feed.pc = "resolved"
  /\ feed.clip.resources = 0

\* The places (from 1) of the bytes of the file that a patch may change: the
\* data of the SeekHead and the data of Duration.
PatchedPlaces(file) ==
  IF Segments(file) = <<>> THEN {}
  ELSE LET sh == WithId(SegmentChildren(file), \h114d9b74)[1]
           du == DurationElement(file)
       IN ((sh.dataPos + 1)..sh.end) \cup ((du.dataPos + 1)..(du.dataPos + 8))

\* C26: a step leaves every byte of the file as it is and adds bytes at its
\* end only, but for complete(), which may also change bytes inside the data
\* of the SeekHead and inside the 8 bytes of Duration; after the step the
\* sink writes at the end of the file again.
C26_AppendOnlyButPatches ==
  [][/\ Len(blobBuffer'.data) >= Len(blobBuffer.data)
     /\ \A p \in 1..Len(blobBuffer.data) :
          blobBuffer'.data[p] # blobBuffer.data[p] =>
            lastCall' = "complete" /\ p \in PatchedPlaces(blobBuffer.data)
     /\ blobBuffer'.pos = Len(blobBuffer'.data)
     /\ blobBuffer'.length = Len(blobBuffer'.data)]_vars

\* complete() after two chunks: Duration is no longer the 0 of the header
\* and the SeekHead holds the place of the Cues.
C26_Witness ==
  /\ lastCall = "complete"
  /\ prevCall = "addFrame"
  /\ Len(chunks) >= 2
  /\ BytesOf(File, DurationElement(File)) # Zeros(8)
  /\ Len(CuesElements(File)) = 1
  /\ blobBuffer.pos = Len(File)

\* Before complete() the header holds a Duration of 0.
DurationUnsetBeforeComplete ==
  (lastCall = "addFrame" /\ prevCall # "complete" /\ prevCall # "addFrame"
   /\ Segments(File) # <<>>) =>
    BytesOf(File, DurationElement(File)) = Zeros(8)

\* C27: the time the muxer keeps for the last chunk added (lastTimeCode, in
\* ticks) is the timestamp of that chunk less the timestamp of the first
\* chunk ever added, whatever addFrame and complete calls came before.
C27_FirstChunkIsTimeZero ==
  Len(chunks) >= 1 =>
    lastTimeCode = TimeAfter(chunks[Len(chunks)], chunks[1])

\* The normalized time of the first frame of the cluster a step writes: of
\* the first buffered frame, or of the chunk the step adds to an empty
\* buffer.
FirstFrameTime ==
  IF clusterFrameBuffer # <<>>
  THEN clusterFrameBuffer[1].intime - earliestTimestamp
  ELSE lastTimeCode'

RECURSIVE TimecodesFrom(_, _, _)
TimecodesFrom(file, clusters, k) ==
  IF k > Len(clusters) THEN <<>>
  ELSE LET bl == SimpleBlocks(file, clusters[k])
       IN [j \in 1..Len(bl) |-> BlockTimecode(file, bl[j])]
          \o TimecodesFrom(file, clusters, k + 1)

\* For each SimpleBlock of clusters[k..], in the order of the file, the
\* place among the written frames of the first frame of its cluster, when
\* `before` frames are in the clusters before clusters[k].
RECURSIVE ClusterFirstsFrom(_, _, _, _)
ClusterFirstsFrom(file, clusters, k, before) ==
  IF k > Len(clusters) THEN <<>>
  ELSE LET n == Len(SimpleBlocks(file, clusters[k]))
       IN [j \in 1..n |-> before + 1]
          \o ClusterFirstsFrom(file, clusters, k + 1, before + n)

\* The written timecodes are the cluster-relative timecodes of the chunks,
\* and these are in the range of a signed 16-bit integer.
TimecodesAre(written, firsts) ==
  \A i \in 1..Len(written) :
    LET timecode == MathRound(TimeAfter(chunks[i], chunks[firsts[i]]))
    IN /\ timecode \in (0 - 32768)..32767
       /\ written[i] = timecode

\* C29: for chunks in the order of their timestamps, the cluster-relative
\* timecode of every frame written into a SimpleBlock (the rounded time of
\* its chunk after the first chunk of its cluster) is in -32768..32767, and
\* the 2-byte timecode of the SimpleBlock is that timecode.
C29_TimecodeFitsInt16 ==
  TimecodesAre(TimecodesFrom(File, Clusters(File), 1),
               ClusterFirstsFrom(File, Clusters(File), 1, 0))

\* C30: no getAsDataArray call of the muxer finds the cursor beyond the end
\* of its buffer (the header buffer, a cluster buffer, the cues buffer, the
\* SeekHead buffer, the header buffer of a SimpleBlock), so no call on the
\* writer throws, and what was staged is in the file: the file ends where
\* the last element of the Segment ends.
C30_NoStagingBufferOverrun ==
  /\ ~threw
  /\ lastCall # "none" =>
       SegmentChildren(File)[Len(SegmentChildren(File))].end = Len(File)

\* The five buffers have been used: a header for 640 x 480, two clusters of
\* three frames in all, the cues and the SeekHead written again.
C30_Witness ==
  /\ lastCall = "complete"
  /\ ~threw
  /\ options.width = 640
  /\ Len(chunks) = 3
  /\ Len(Clusters(File)) = 2
  /\ Len(WrittenFrames(File)) = 3
  /\ Len(CuesElements(File)) = 1
  /\ Len(FileCues(File, CuesElements(File)[1])) = 2

\* C31: under a fair encoder and with renders that resolve, an export where
\* nothing fails ends: the loop leaves every wait for encoder capacity, and
\* complete() is invoked once all the frames are submitted.
C31_ExportTerminates ==
  (feed.fault = "none")
    ~> (/\ feed.pc = "done"
        /\ feed.completeInvoked
        /\ feed.frameIndex = totalFrames(feed.options))

\* The export of 152 frames is done, and its loop waited for a dequeue
\* event before it submitted the last frame.
C31_Witness ==
  /\ feed.phase = "export"
  /\ feed.fault = "none"
  /\ feed.pc = "done"
  /\ feed.completeInvoked
  /\ feed.waited
  /\ totalFrames(feed.options) = 152
  /\ Len(chunks) = 152

\* C32: removeResourceById(id) and removeClipById(id) leave their list
\* without the element of that id and with the other elements in their
\* order, leave it as it was when no element has that id, and leave the
\* other list as it was.
C32_RemoveByIdRemovesThatElement ==
  /\ feed.call.fn = "removeResourceById" =>
       /\ feed.resources = filterOut(feed.before.resources, feed.call.id)
       /\ feed.clips = feed.before.clips
  /\ feed.call.fn = "removeClipById" =>
       /\ feed.clips = filterOut(feed.before.clips, feed.call.id)
       /\ feed.resources = feed.before.resources

\* A call with the id of an element removes that element only.
RemoveByIdOfElement ==
  /\ (feed.call.fn = "removeResourceById"
      /\ findIndex(feed.before.resources, feed.call.id) >= 0) =>
       feed.resources = filterOut(feed.before.resources, feed.call.id)
  /\ (feed.call.fn = "removeClipById"
      /\ findIndex(feed.before.clips, feed.call.id) >= 0) =>
       feed.clips = filterOut(feed.before.clips, feed.call.id)

====
